---- MODULE Spec2Model ----
(***************************************************************************)
(* A model of the gosearch engine: the text analyzer, the inverted index,  *)
(* the per-document statistics, the bbolt-backed storage and the engine    *)
(* that composes them under one sync.RWMutex.                              *)
(*                                                                         *)
(* Spec        every engine call is one atomic step (calls issued one      *)
(*             after the other) and every store transaction succeeds.      *)
(* SpecFaults  as Spec, with store transactions that fail: the empty id,   *)
(*             which bbolt refuses as a key, and I/O errors.               *)
(* SpecExample as Spec, on the two documents of the ranking example.       *)
(* SpecCrash   as Spec, with a process that dies between two of the three  *)
(*             store writes of a mutation and is started again.            *)
(* SpecIndex   the calls of the Index type on their own, in any order.      *)
(* SpecApi     the requests of the HTTP handlers of api.go.                 *)
(* SpecBatch   the batch insert of api.go, one step per document, with     *)
(*             single inserts and deletes served in between.               *)
(* SpecAnalyze analyze applied to every text of up to MaxLen runes.         *)
(* SpecRank    RankDocuments applied to candidate lists of up to            *)
(*             MaxInsertion + 1 ids.                                        *)
(* SpecConc    the calls of several goroutines, one step per statement     *)
(*             group, interleaved under the engine's RWMutex.              *)
(***************************************************************************)
EXTENDS Integers, Sequences, FiniteSets, TLC

VARIABLES
    index,          \* e.index: [index: token -> posting list, docCount: Int]
    docStats,       \* e.docStats: doc id -> DocStats
    avgDocLength,   \* e.avgDocLength, an exact fraction <<num, den>>
    db,             \* the bbolt file: [documents, doc_stats, index] buckets
    engine,         \* "open" or "closed"
    mu,             \* e.mu: [writer: thread or 0, readers: set of threads]
    idxMu,          \* idx.mu of e.index, as e.mu
    pc,             \* per goroutine: the statement it is at
    call,           \* per goroutine: the locals of its call
    last,           \* the call that returned last, with what it returned
    faults,         \* the number of store transactions that have failed, and of
                    \* crashes of the process, so far
    calls           \* the number of calls the goroutines of SpecConc have begun

vars == <<index, docStats, avgDocLength, db, engine, mu, idxMu, pc, call, last, faults, calls>>

(***************************************************************************)
(* Bounds of the model.                                                    *)
(***************************************************************************)
NumIds == 2         \* document ids besides the empty id
NumThreads == 2     \* goroutines of SpecConc
MaxCalls == 3       \* calls the goroutines of SpecConc begin in one run
MaxFaults == 1      \* store transactions that may fail, or crashes, in one run
MaxQueryTokens == 2 \* tokens of a list handed to SearchAND and SearchOR
MaxDocCount == 3    \* the document counter up to which SpecIndex adds documents
MaxBatch == 2       \* documents in the body of one batch insert
MaxLen == 3         \* runes of a text handed to analyze in SpecAnalyze
IntBits == 16       \* bits of the model's int (the int of the code has 64)

(***************************************************************************)
(* Inputs.  A text is a sequence of runes, each a one-rune string.         *)
(***************************************************************************)
IdPool == <<"a", "b", "c", "d">>

\* the ids of the calls of Spec
RegularIds == {IdPool[i] : i \in 1..NumIds}

\* the ids of the calls of SpecFaults: the empty id is an input the engine
\* accepts and bbolt refuses as a key
FaultIds == {"", IdPool[1]}

\* the ids of the calls of SpecConc and SpecCrash
ConcIds == {IdPool[1], IdPool[2]}

DocIds == RegularIds \cup FaultIds \cup ConcIds

Range(s) == {s[i] : i \in 1..Len(s)}

Max(a, b) == IF a >= b THEN a ELSE b

Min(a, b) == IF a <= b THEN a ELSE b

\* the largest int
MaxInt == 2 ^ (IntBits - 1) - 1

\* the int a Go addition yields for the mathematical sum n: two's
\* complement, the bits beyond the width dropped
WrapInt(n) == ((n + 2 ^ (IntBits - 1)) % (2 ^ IntBits)) - 2 ^ (IntBits - 1)

(***************************************************************************)
(* Runes.  "G" is the one upper-case letter, "e'" stands for a letter that  *)
(* takes two bytes in UTF-8, " " and "-" are neither letter nor number.    *)
(***************************************************************************)
Letters == {"G", "g", "o", "r", "s", "a", "b", "t", "h", "e", "e'"}

Numbers == {"7"}

IsLetter(r) == r \in Letters

IsNumber(r) == r \in Numbers

\* unicode.ToLower of one rune
ToLowerRune(r) == IF r = "G" THEN "g" ELSE r

\* strings.ToLower
ToLower(text) == [i \in 1..Len(text) |-> ToLowerRune(text[i])]

\* the number of bytes of the UTF-8 encoding of one rune
RuneLen(r) == IF r = "e'" THEN 2 ELSE 1

RECURSIVE ByteLen(_)
\* len(token) of a Go string: bytes, not runes
ByteLen(s) == IF Len(s) = 0 THEN 0 ELSE RuneLen(Head(s)) + ByteLen(Tail(s))

MinTokenLen == 2

\* the body of the loop and the trailing flush of analyze: cur is
\* currentToken, toks is tokens
Flush(cur, toks) ==
    IF ByteLen(cur) > 0 /\ ByteLen(cur) >= MinTokenLen THEN Append(toks, cur) ELSE toks

RECURSIVE Scan(_, _, _, _)
Scan(text, i, cur, toks) ==
    IF i > Len(text) THEN Flush(cur, toks)
    ELSE IF IsLetter(text[i]) \/ IsNumber(text[i])
         THEN Scan(text, i + 1, Append(cur, text[i]), toks)
         ELSE Scan(text, i + 1, <<>>, Flush(cur, toks))

analyze(text) == Scan(ToLower(text), 1, <<>>, <<>>)

(***************************************************************************)
(* Documents.  A Go map is [nil: BOOLEAN, m: function]; the nil map has    *)
(* nil = TRUE and no entries.                                              *)
(***************************************************************************)
NilMap == [nil |-> TRUE, m |-> <<>>]

EmptyMap == [nil |-> FALSE, m |-> <<>>]

MapOf(f) == [nil |-> FALSE, m |-> f]

\* NewDocument(id, title, content)
NewDocument(id, title, content) ==
    [ID |-> id, Title |-> title, Content |-> content, URL |-> "", Metadata |-> EmptyMap]

\* Document.SearchableText
SearchableText(d) == d.Title \o <<" ">> \o d.Content

\* The title, content, url and metadata the calls are issued with.
Bodies ==
    { [Title |-> <<"G", "o">>, Content |-> <<"g", "o", " ", "g", "o">>,
       URL |-> "", Metadata |-> EmptyMap],
      [Title |-> <<"r", "s">>, Content |-> <<"g", "o">>,
       URL |-> "http://u", Metadata |-> NilMap],
      [Title |-> <<"a">>, Content |-> <<"b">>,
       URL |-> "", Metadata |-> MapOf("k" :> "v")] }

Documents ==
    { [ID |-> id, Title |-> b.Title, Content |-> b.Content,
       URL |-> b.URL, Metadata |-> b.Metadata] : id \in DocIds, b \in Bodies }

RegularDocuments == {d \in Documents : d.ID \in RegularIds}

FaultDocuments == {d \in Documents : d.ID \in FaultIds}

\* the documents of SpecConc and SpecCrash: the two bodies that have tokens
ConcDocuments == {d \in Documents : d.ID \in ConcIds /\ Len(d.Title) > 1}

Tokens == UNION {Range(analyze(SearchableText(d))) : d \in Documents}

\* termFreqs[token]++ over tokens
\* term frequencies that record the presence of a token, not its count
TermFreqsPresence(tokens) == [t \in Range(tokens) |-> 1]

TermFreqs(tokens) ==
    [t \in Range(tokens) |-> Cardinality({i \in 1..Len(tokens) : tokens[i] = t})]

\* the DocStats literal built by UpsertDocument
MakeDocStats(id, tokens) ==
    [ID |-> id, Length |-> Len(tokens), TermFrequencies |-> TermFreqs(tokens)]

(***************************************************************************)
(* encoding/json.  An omitempty field is a sequence of zero or one value.  *)
(***************************************************************************)
MarshalDocument(d) ==
    [id |-> d.ID, title |-> d.Title, content |-> d.Content,
     url |-> IF d.URL = "" THEN <<>> ELSE <<d.URL>>,
     metadata |-> IF DOMAIN d.Metadata.m = {} THEN <<>> ELSE <<d.Metadata.m>>]

UnmarshalDocument(j) ==
    [ID |-> j.id, Title |-> j.title, Content |-> j.content,
     URL |-> IF Len(j.url) = 0 THEN "" ELSE j.url[1],
     Metadata |-> IF Len(j.metadata) = 0 THEN NilMap ELSE MapOf(j.metadata[1])]

MarshalDocStats(s) ==
    [id |-> s.ID, length |-> s.Length, term_frequencies |-> s.TermFrequencies]

UnmarshalDocStats(j) ==
    [ID |-> j.id, Length |-> j.length, TermFrequencies |-> j.term_frequencies]

\* a serialization that leaves the document counter out
MarshalIndexWithoutCount(idx) == [index |-> idx.index, doc_count |-> 0]

MarshalIndex(idx) == [index |-> idx.index, doc_count |-> idx.docCount]

UnmarshalIndex(j) == [index |-> j.index, docCount |-> j.doc_count]

(***************************************************************************)
(* The inverted index (index.go).  idx is [index, docCount]; idx.index is  *)
(* a function from the tokens present to their posting lists.              *)
(***************************************************************************)
NewIndex == [index |-> <<>>, docCount |-> 0]

\* an addition that appends the id once per token occurrence, without the
\* set of unique tokens and without the search for the id in the list
AddDocumentPerOccurrence(idx, docID, tokens) ==
    LET docList(t) == IF t \in DOMAIN idx.index THEN idx.index[t] ELSE <<>>
        times(t) == Cardinality({i \in 1..Len(tokens) : tokens[i] = t})
    IN  [index |-> [t \in DOMAIN idx.index \cup Range(tokens) |->
                        docList(t) \o [i \in 1..times(t) |-> docID]],
         docCount |-> idx.docCount + 1]

AddDocument(idx, docID, tokens) ==
    LET unique == Range(tokens)
        docList(t) == IF t \in DOMAIN idx.index THEN idx.index[t] ELSE <<>>
        found(t) == docID \in Range(docList(t))
    IN  [index |-> [t \in DOMAIN idx.index \cup unique |->
                        IF t \in unique /\ ~found(t) THEN Append(docList(t), docID)
                        ELSE docList(t)],
         docCount |-> idx.docCount + 1]

\* a removal that leaves the posting lists it empties in the map
RemoveDocumentKeepsEmpty(idx, docID) ==
    [index |-> [t \in DOMAIN idx.index |-> SelectSeq(idx.index[t], LAMBDA id : id # docID)],
     docCount |-> Max(idx.docCount - 1, 0)]

RemoveDocument(idx, docID) ==
    LET newList(t) == SelectSeq(idx.index[t], LAMBDA id : id # docID)
        kept == {t \in DOMAIN idx.index : Len(newList(t)) # 0}
    IN  [index |-> [t \in kept |-> newList(t)],
         docCount |-> Max(idx.docCount - 1, 0)]

\* UpdateDocument without the RemoveDocument call
UpdateDocumentNoRemove(idx, docID, tokens) == AddDocument(idx, docID, tokens)

UpdateDocument(idx, docID, tokens) ==
    AddDocument(RemoveDocument(idx, docID), docID, tokens)

DocFrequency(idx, token) ==
    IF token \in DOMAIN idx.index THEN Len(idx.index[token]) ELSE 0

TotalDocuments(idx) == idx.docCount

\* the set of ids that occur in some posting list
IndexedIds(idx) == UNION {Range(idx.index[t]) : t \in DOMAIN idx.index}

(***************************************************************************)
(* Exact fractions for float64 quotients of two small integers.            *)
(***************************************************************************)
RECURSIVE GCD(_, _)
GCD(a, b) == IF b = 0 THEN a ELSE GCD(b, a % b)

Frac(n, d) == <<n \div GCD(n, d), d \div GCD(n, d)>>

Zero == <<0, 1>>

RECURSIVE SumLengths(_, _)
\* totalLength += stats.Length over the entries ids of the map stats
SumLengths(stats, ids) ==
    IF ids = {} THEN 0
    ELSE LET id == CHOOSE x \in ids : TRUE
         IN  stats[id].Length + SumLengths(stats, ids \ {id})

\* an average computed by integer division
AvgLengthTruncated(stats) ==
    IF Cardinality(DOMAIN stats) = 0 THEN Zero
    ELSE Frac(SumLengths(stats, DOMAIN stats) \div Cardinality(DOMAIN stats), 1)

\* recalculateAvgLength, and the same computation in NewSearchEngine
AvgLength(stats) ==
    IF Cardinality(DOMAIN stats) = 0 THEN Zero
    ELSE Frac(SumLengths(stats, DOMAIN stats), Cardinality(DOMAIN stats))

(***************************************************************************)
(* bbolt buckets: functions from keys to values.                           *)
(***************************************************************************)
\* Bucket.Put refuses the empty key (ErrKeyRequired)
KeyRequired(key) == key = ""

Put(b, key, value) == [k \in DOMAIN b \cup {key} |-> IF k = key THEN value ELSE b[k]]

\* Bucket.Delete: no error for a key that is not there
Delete(b, key) == [k \in DOMAIN b \ {key} |-> b[k]]

\* NewStorage on a fresh path: CreateBucketIfNotExists for each bucket
EmptyDB == [documents |-> <<>>, doc_stats |-> <<>>, index |-> <<>>]

MainIndexKey == "main_index"

(***************************************************************************)
(* Storage (the bbolt adapter).  A write returns [err, db]: err is TRUE    *)
(* when the transaction failed, and then the file is unchanged.  ioErr     *)
(* says that the transaction hits an I/O error.                            *)
(***************************************************************************)
SaveDocument(d, doc, ioErr) ==
    IF ioErr \/ KeyRequired(doc.ID) THEN [err |-> TRUE, db |-> d]
    ELSE [err |-> FALSE,
          db |-> [d EXCEPT !.documents = Put(@, doc.ID, MarshalDocument(doc))]]

\* the stored document as a sequence of one element, <<>> for the nil pointer
GetDocument(d, id) ==
    IF id \in DOMAIN d.documents THEN <<UnmarshalDocument(d.documents[id])>> ELSE <<>>

DeleteDocument(d, id, ioErr) ==
    IF ioErr THEN [err |-> TRUE, db |-> d]
    ELSE [err |-> FALSE, db |-> [d EXCEPT !.documents = Delete(@, id)]]

SaveDocStats(d, stats, ioErr) ==
    IF ioErr \/ KeyRequired(stats.ID) THEN [err |-> TRUE, db |-> d]
    ELSE [err |-> FALSE,
          db |-> [d EXCEPT !.doc_stats = Put(@, stats.ID, MarshalDocStats(stats))]]

\* statsMap[stats.ID] = &stats for every row of the bucket
GetAllDocStats(d) ==
    LET rows == {UnmarshalDocStats(d.doc_stats[k]) : k \in DOMAIN d.doc_stats}
    IN  [id \in {r.ID : r \in rows} |-> CHOOSE r \in rows : r.ID = id]

DeleteDocStats(d, id, ioErr) ==
    IF ioErr THEN [err |-> TRUE, db |-> d]
    ELSE [err |-> FALSE, db |-> [d EXCEPT !.doc_stats = Delete(@, id)]]

SaveIndex(d, idx, ioErr) ==
    IF ioErr THEN [err |-> TRUE, db |-> d]
    ELSE [err |-> FALSE,
          db |-> [d EXCEPT !.index = Put(@, MainIndexKey, MarshalIndex(idx))]]

LoadIndex(d) ==
    IF MainIndexKey \in DOMAIN d.index THEN UnmarshalIndex(d.index[MainIndexKey])
    ELSE NewIndex

(***************************************************************************)
(* The engine.  e is [index, docStats, avgDocLength].                      *)
(***************************************************************************)
\* NewSearchEngine: what it loads from the store
NewSearchEngine(d) ==
    [index |-> LoadIndex(d),
     docStats |-> GetAllDocStats(d),
     avgDocLength |-> AvgLength(GetAllDocStats(d))]

\* e.docStats[doc.ID] = docStats
SetDocStats(stats, id, entry) ==
    [k \in DOMAIN stats \cup {id} |-> IF k = id THEN entry ELSE stats[k]]

\* delete(e.docStats, docID)
DeleteDocStatsEntry(stats, id) == [k \in DOMAIN stats \ {id} |-> stats[k]]

\* the in-memory part of UpsertDocument
UpsertMem(e, doc) ==
    LET tokens == analyze(SearchableText(doc))
        stats == SetDocStats(e.docStats, doc.ID, MakeDocStats(doc.ID, tokens))
    IN  [index |-> UpdateDocument(e.index, doc.ID, tokens),
         docStats |-> stats,
         avgDocLength |-> AvgLength(stats)]

\* the three writes without the early returns: the first error is
\* returned and the later writes are made all the same
UpsertPersistKeepsWriting(d, doc, idx, io) ==
    LET w1 == SaveDocument(d, doc, io = 1)
        w2 == SaveDocStats(w1.db, MakeDocStats(doc.ID, analyze(SearchableText(doc))), io = 2)
        w3 == SaveIndex(w2.db, idx, io = 3)
    IN  [err |-> IF w1.err THEN "failed to save document"
                 ELSE IF w2.err THEN "failed to save doc stats"
                 ELSE IF w3.err THEN "failed to save index" ELSE "",
         db |-> w3.db]

\* the three store writes of UpsertDocument; io is the number of the write
\* that hits an I/O error, 0 for none
UpsertPersist(d, doc, idx, io) ==
    LET w1 == SaveDocument(d, doc, io = 1)
        w2 == SaveDocStats(w1.db, MakeDocStats(doc.ID, analyze(SearchableText(doc))), io = 2)
        w3 == SaveIndex(w2.db, idx, io = 3)
    IN  IF w1.err THEN [err |-> "failed to save document", db |-> w1.db]
        ELSE IF w2.err THEN [err |-> "failed to save doc stats", db |-> w2.db]
        ELSE IF w3.err THEN [err |-> "failed to save index", db |-> w3.db]
        ELSE [err |-> "", db |-> w3.db]

\* the in-memory part of DeleteDocument
DeleteMem(e, docID) ==
    LET stats == DeleteDocStatsEntry(e.docStats, docID)
    IN  [index |-> RemoveDocument(e.index, docID),
         docStats |-> stats,
         avgDocLength |-> AvgLength(stats)]

\* the three store writes of DeleteDocument
DeletePersist(d, docID, idx, io) ==
    LET w1 == DeleteDocument(d, docID, io = 1)
        w2 == DeleteDocStats(w1.db, docID, io = 2)
        w3 == SaveIndex(w2.db, idx, io = 3)
    IN  IF w1.err THEN [err |-> "failed to delete document", db |-> w1.db]
        ELSE IF w2.err THEN [err |-> "failed to delete doc stats", db |-> w2.db]
        ELSE IF w3.err THEN [err |-> "failed to save index", db |-> w3.db]
        ELSE [err |-> "", db |-> w3.db]

\* Index.Stats
IndexStats(idx) ==
    LET totalDocs == SumLengths([t \in DOMAIN idx.index |-> [Length |-> Len(idx.index[t])]],
                                DOMAIN idx.index)
    IN  [TotalDocuments |-> idx.docCount,
         TotalTokens |-> Cardinality(DOMAIN idx.index),
         AvgDocsPerToken |-> IF Cardinality(DOMAIN idx.index) > 0
                             THEN Frac(totalDocs, Cardinality(DOMAIN idx.index))
                             ELSE Zero]

(***************************************************************************)
(* Retrieval (index.go) and ranking.  SearchAND and SearchOR build their   *)
(* result in a Go map and return its keys in the map's iteration order:    *)
(* the operators give the set, the caller draws the order.                 *)
(***************************************************************************)
Postings(idx, token) == IF token \in DOMAIN idx.index THEN Range(idx.index[token]) ELSE {}

\* an intersection over the tokens the index has, the others passed over
SearchANDSkipsAbsent(idx, tokens) ==
    {id \in UNION {Postings(idx, tokens[i]) : i \in 1..Len(tokens)} :
        \A i \in 1..Len(tokens) :
           tokens[i] \in DOMAIN idx.index => id \in Postings(idx, tokens[i])}

SearchAND(idx, tokens) ==
    IF Len(tokens) = 0 THEN {}
    ELSE IF \E i \in 1..Len(tokens) : tokens[i] \notin DOMAIN idx.index THEN {}
    ELSE {id \in Postings(idx, tokens[1]) :
             \A i \in 2..Len(tokens) : id \in Postings(idx, tokens[i])}

\* a union that looks at the first token only
SearchORFirstToken(idx, tokens) ==
    IF Len(tokens) = 0 THEN {} ELSE Postings(idx, tokens[1])

SearchOR(idx, tokens) == UNION {Postings(idx, tokens[i]) : i \in 1..Len(tokens)}

\* the sequences that list every element of the set S once
Orders(S) ==
    {f \in [1..Cardinality(S) -> S] : \A i, j \in 1..Cardinality(S) : f[i] = f[j] => i = j}

(***************************************************************************)
(* BM25 in fixed point: a score is the float64 score times Scale, cut to   *)
(* an integer.  K1 = 3/2 and B = 3/4 are folded into NormalizedTF.         *)
(***************************************************************************)
Scale == 10000

LnTerms == 12

RECURSIVE AtanhSeries(_, _, _, _)
\* sum of pow/(2k+1), pow = z^(2k+1), for k = k .. LnTerms, z and pow scaled
AtanhSeries(pow, z2, k, acc) ==
    IF k > LnTerms THEN acc
    ELSE AtanhSeries((pow * z2) \div Scale, z2, k + 1, acc + pow \div (2 * k + 1))

\* math.Log(a/b) * Scale for integers a >= b > 0: 2 * atanh((a-b)/(a+b))
LnAbove(a, b) ==
    LET z == ((a - b) * Scale) \div (a + b)
    IN  2 * AtanhSeries(z, (z * z) \div Scale, 0, 0)

\* math.Log(a/b) * Scale for integers a, b > 0
LnScaled(a, b) == IF a >= b THEN LnAbove(a, b) ELSE 0 - LnAbove(b, a)

\* idf = math.Log((totalDocs-docFreq+0.5)/(docFreq+0.5) + 1.0), 0 for docFreq 0;
\* the argument is (2*totalDocs + 2) / (2*docFreq + 1)
IDF(totalDocs, docFreq) ==
    IF docFreq > 0 THEN LnScaled(2 * totalDocs + 2, 2 * docFreq + 1) ELSE 0

\* idf * (tf*(K1+1)) / (tf + K1*(1-B+B*(docLength/avgDocLength))) with
\* avgDocLength = avg[1]/avg[2]; a zero avgDocLength makes the quotient
\* docLength/avgDocLength +Inf and the term 0
TermScore(idf, tf, docLength, avg) ==
    IF avg[1] = 0 THEN 0
    ELSE (idf * 20 * tf * avg[1])
            \div (8 * tf * avg[1] + 3 * avg[1] + 9 * docLength * avg[2])

RECURSIVE ScoreFrom(_, _, _, _, _)
ScoreFrom(queryTerms, i, stats, idx, avg) ==
    IF i > Len(queryTerms) THEN 0
    ELSE LET term == queryTerms[i]
             tf == IF term \in DOMAIN stats.TermFrequencies
                   THEN stats.TermFrequencies[term] ELSE 0
         IN  (IF tf = 0 THEN 0
              ELSE TermScore(IDF(TotalDocuments(idx), DocFrequency(idx, term)),
                             tf, stats.Length, avg))
             + ScoreFrom(queryTerms, i + 1, stats, idx, avg)

\* BM25.Score
Score(queryTerms, stats, idx, avg) == ScoreFrom(queryTerms, 1, stats, idx, avg)

\* a pass that leaves x where the candidate order put it
InsertByScoreAtEnd(sorted, x) == Append(sorted, x)

\* one pass of the insertion sort sort.Slice runs on a slice of at most
\* 12 elements: x moves left past the elements of strictly smaller score
InsertByScore(sorted, x) ==
    LET n == Cardinality({i \in 1..Len(sorted) : sorted[i].Score >= x.Score})
    IN  SubSeq(sorted, 1, n) \o <<x>> \o SubSeq(sorted, n + 1, Len(sorted))

RECURSIVE SortByScore(_, _, _)
SortByScore(scored, i, sorted) ==
    IF i > Len(scored) THEN sorted
    ELSE SortByScore(scored, i + 1, InsertByScore(sorted, scored[i]))

\* the length up to which sort.Slice runs the insertion sort alone
MaxInsertion == 12

\* the less function RankDocuments hands to sort.Slice
Less(x, y) == x.Score > y.Score

\* data.Swap(i, j)
Swap(data, i, j) == [data EXCEPT ![i] = data[j], ![j] = data[i]]

\* order2 and median of choosePivot on positions a, b, c: the position of
\* the median and the number of swaps that found it
Median(data, a, b, c) ==
    LET a1 == IF Less(data[b], data[a]) THEN b ELSE a
        b1 == IF Less(data[b], data[a]) THEN a ELSE b
        b2 == IF Less(data[c], data[b1]) THEN c ELSE b1
        b3 == IF Less(data[b2], data[a1]) THEN a1 ELSE b2
    IN  [pivot |-> b3,
         swaps |-> (IF Less(data[b], data[a]) THEN 1 ELSE 0)
                   + (IF Less(data[c], data[b1]) THEN 1 ELSE 0)
                   + (IF Less(data[b2], data[a1]) THEN 1 ELSE 0)]

\* choosePivot for a slice of 8 to 49 elements: the median of the elements
\* at l/4, 2*l/4 and 3*l/4 (offsets from the first element)
ChoosePivot(data) ==
    LET q == Len(data) \div 4
    IN  Median(data, q + 1, 2 * q + 1, 3 * q + 1)

\* partialInsertionSort on fewer than 50 elements finishes only when it
\* finds no element out of order, and moves nothing otherwise
IsSorted(data) == \A i \in 2..Len(data) : ~Less(data[i], data[i - 1])

RECURSIVE SkipLeft(_, _, _)
\* for i <= j && less(data[i], data[a]) { i++ }, the pivot being first
SkipLeft(data, i, j) ==
    IF i <= j /\ Less(data[i], data[1]) THEN SkipLeft(data, i + 1, j) ELSE i

RECURSIVE SkipRight(_, _, _)
\* for i <= j && !less(data[j], data[a]) { j-- }
SkipRight(data, i, j) ==
    IF i <= j /\ ~Less(data[j], data[1]) THEN SkipRight(data, i, j - 1) ELSE j

RECURSIVE PartitionLoop(_, _, _)
\* the loop of partition, which ends by moving the pivot to position j
PartitionLoop(data, i, j) ==
    LET i1 == SkipLeft(data, i, j)
        j1 == SkipRight(data, i1, j)
    IN  IF i1 > j1 THEN [data |-> Swap(data, j1, 1), mid |-> j1]
        ELSE PartitionLoop(Swap(data, i1, j1), i1 + 1, j1 - 1)

\* partition: the pivot is swapped to the front, the elements that are less
\* go to its left and all others, its equals included, to its right
Partition(data, pivot) == PartitionLoop(Swap(data, 1, pivot), 2, Len(data))

\* sort.Slice(scored, less), pdqsort since Go 1.19.  Up to MaxInsertion
\* elements are insertion-sorted.  A longer slice is left alone when the
\* pivot was found without a swap and no element is out of order, and is
\* partitioned around the pivot otherwise; of MaxInsertion + 1 elements,
\* the longest slice the model sorts, both sides are then insertion-sorted
\* (the further branches of pdqsort need a longer slice).
SortSlice(scored) ==
    IF Len(scored) <= MaxInsertion THEN SortByScore(scored, 1, <<>>)
    ELSE IF ChoosePivot(scored).swaps = 0 /\ IsSorted(scored) THEN scored
    ELSE LET p == Partition(scored, ChoosePivot(scored).pivot)
         IN  SortByScore(SubSeq(p.data, 1, p.mid - 1), 1, <<>>)
             \o <<p.data[p.mid]>>
             \o SortByScore(SubSeq(p.data, p.mid + 1, Len(p.data)), 1, <<>>)

\* RankDocuments: candidates without a stats entry are dropped
RankDocuments(queryTerms, candidateDocs, docStatsMap, idx, avg) ==
    LET known == SelectSeq(candidateDocs, LAMBDA id : id \in DOMAIN docStatsMap)
        scored == [i \in 1..Len(known) |->
                     [DocID |-> known[i],
                      Score |-> Score(queryTerms, docStatsMap[known[i]], idx, avg)]]
    IN  SortSlice(scored)

(***************************************************************************)
(* SearchEngine.Search in its parts.                                       *)
(***************************************************************************)
SearchModeAND == 0

SearchModeOR == 1

DefaultSearchOptions ==
    [Mode |-> SearchModeAND, UseRanking |-> TRUE, Limit |-> 10, Offset |-> 0]

\* a retrieval that takes every query for an AND query
CandidateSetIgnoresMode(idx, queryTokens, options) == SearchAND(idx, queryTokens)

\* the candidate ids as a set; any other Mode falls to the default branch
CandidateSet(idx, queryTokens, options) ==
    IF options.Mode = SearchModeOR THEN SearchOR(idx, queryTokens)
    ELSE SearchAND(idx, queryTokens)

\* sortedIDs and scores from candidateIDs
Ranked(e, queryTokens, candidateIDs, options) ==
    IF options.UseRanking /\ Len(candidateIDs) > 0
    THEN LET scoredDocs == RankDocuments(queryTokens, candidateIDs, e.docStats,
                                         e.index, e.avgDocLength)
         IN  [ids |-> [i \in 1..Len(scoredDocs) |-> scoredDocs[i].DocID],
              scores |-> [i \in 1..Len(scoredDocs) |-> scoredDocs[i].Score]]
    ELSE [ids |-> candidateIDs, scores |-> <<>>]

\* the number of calls of BM25.Score a search makes: one for every
\* candidate that has a stats entry, when the search is ranked and has a
\* candidate
ScoreCalls(e, candidateIDs, options) ==
    IF options.UseRanking /\ Len(candidateIDs) > 0
    THEN Len(SelectSeq(candidateIDs, LAMBDA id : id \in DOMAIN e.docStats))
    ELSE 0

\* start and end of the page of a list of n ids; the sum is an int
PageBounds(n, options) ==
    LET start == IF options.Offset > n THEN n ELSE options.Offset
        sum == WrapInt(start + options.Limit)
    IN  [start |-> start, end |-> IF sum > n THEN n ELSE sum]

\* the run-time check of the slice expression s[start:end] on a slice of
\* length and capacity n; the expression panics when it fails
SliceInRange(bounds, n) == 0 <= bounds.start /\ bounds.start <= bounds.end /\ bounds.end <= n

\* sortedIDs[start:end] and scores[start:end]
Page(ranked, options) ==
    LET start == PageBounds(Len(ranked.ids), options).start
        end == PageBounds(Len(ranked.ids), options).end
    IN  [ids |-> SubSeq(ranked.ids, start + 1, end),
         scores |-> IF Len(ranked.scores) > 0
                    THEN SubSeq(ranked.scores, start + 1, end) ELSE <<>>]

RECURSIVE FetchFromStopsAtMissing(_, _, _)
\* a loop that ends at the first id that loads no document
FetchFromStopsAtMissing(d, pageIDs, i) ==
    IF i > Len(pageIDs) \/ GetDocument(d, pageIDs[i]) = <<>> THEN <<>>
    ELSE GetDocument(d, pageIDs[i]) \o FetchFromStopsAtMissing(d, pageIDs, i + 1)

RECURSIVE FetchFrom(_, _, _)
\* the loop over pageIDs: ids that load no document are skipped
FetchFrom(d, pageIDs, i) ==
    IF i > Len(pageIDs) THEN <<>>
    ELSE GetDocument(d, pageIDs[i]) \o FetchFrom(d, pageIDs, i + 1)

\* the SearchResult for the candidate order candidateIDs
SearchResult(e, d, query, options, candidateIDs) ==
    LET queryTokens == analyze(query)
        ranked == Ranked(e, queryTokens, candidateIDs, options)
        page == Page(ranked, options)
    IN  IF Len(queryTokens) = 0
        THEN [Documents |-> <<>>, Total |-> 0, Scores |-> <<>>]
        ELSE IF ~SliceInRange(PageBounds(Len(ranked.ids), options), Len(ranked.ids))
        THEN [panic |-> "slice bounds out of range"]
        ELSE [Documents |-> FetchFrom(d, page.ids, 1),
              Total |-> Len(candidateIDs),
              Scores |-> page.scores]

\* the candidate orders Search may see for a query
CandidateOrders(idx, query, options) ==
    Orders(CandidateSet(idx, analyze(query), options))

\* The queries and options the calls are issued with.
Queries == { <<"g", "o">>, <<"r", "s", " ", "G", "o">>, <<"a">> }

SearchOptions ==
    { DefaultSearchOptions,
      [Mode |-> SearchModeOR, UseRanking |-> TRUE, Limit |-> 1, Offset |-> 0],
      [Mode |-> SearchModeOR, UseRanking |-> FALSE, Limit |-> 1, Offset |-> 1],
      [Mode |-> SearchModeOR, UseRanking |-> TRUE, Limit |-> 2, Offset |-> 3],
      [Mode |-> SearchModeAND, UseRanking |-> FALSE, Limit |-> 0, Offset |-> 0] }

\* the queries and options of SpecConc and SpecCrash
ConcQueries == { <<"g", "o">>, <<"r", "s", " ", "G", "o">> }

ConcOptions ==
    { DefaultSearchOptions,
      [Mode |-> SearchModeOR, UseRanking |-> FALSE, Limit |-> 1, Offset |-> 1] }

\* the options of SpecLock: the defaults, and a page whose end start +
\* options.Limit wraps around
LockOptions ==
    { DefaultSearchOptions,
      [Mode |-> SearchModeOR, UseRanking |-> FALSE, Limit |-> MaxInt, Offset |-> 1] }

\* the searches of SpecConc: each query with the defaults, the query of two
\* tokens as an unranked OR page, and the query of one token with the page
\* whose end wraps around
ConcSearches ==
    { <<query, DefaultSearchOptions>> : query \in ConcQueries }
    \cup { <<query, options>> : query \in {q \in ConcQueries : Len(analyze(q)) > 1},
                                options \in ConcOptions }
    \cup { <<query, options>> : query \in {q \in ConcQueries : Len(analyze(q)) = 1},
                                options \in LockOptions }

(***************************************************************************)
(* State.                                                                  *)
(***************************************************************************)
Threads == 1..NumThreads

IOFailures == 0..3

NoCall == [op |-> "none"]

Unlocked == [writer |-> 0, readers |-> {}]

\* what a call returned: op and id name the call, doc is the argument of
\* an upsert, err the error ("" for nil), out the value returned, and had
\* the stats entry the call found for id when it took the lock (<<>>: none)
Returned(op, id, doc, err, out, had) ==
    [op |-> op, id |-> id, doc |-> doc, err |-> err, out |-> out, had |-> had]

\* the stats entry of id as a sequence of zero or one element
Entry(stats, id) == IF id \in DOMAIN stats THEN <<stats[id]>> ELSE <<>>

Mem == [index |-> index, docStats |-> docStats, avgDocLength |-> avgDocLength]

\* main: NewSearchEngine on a path where no file exists yet
Init ==
    /\ index = NewSearchEngine(EmptyDB).index
    /\ docStats = NewSearchEngine(EmptyDB).docStats
    /\ avgDocLength = NewSearchEngine(EmptyDB).avgDocLength
    /\ db = EmptyDB
    /\ engine = "open"
    /\ mu = Unlocked
    /\ idxMu = Unlocked
    /\ pc = [t \in Threads |-> "idle"]
    /\ call = [t \in Threads |-> NoCall]
    /\ last = Returned("open", "", <<>>, "", <<>>, <<>>)
    /\ faults = 0
    /\ calls = 0

Quiet == \A t \in Threads : pc[t] = "idle"

\* a call whose store transaction fails is taken only while the run has
\* failures left
MayFail(err) == err = "" \/ faults < MaxFaults

Failed(err) == IF err = "" THEN 0 ELSE 1

(***************************************************************************)
(* Spec: every call runs from Lock to Unlock in one step.                  *)
(***************************************************************************)
EngineUpsertDocument(doc, io) ==
    /\ engine = "open" /\ Quiet
    /\ LET e == UpsertMem(Mem, doc)
           w == UpsertPersist(db, doc, e.index, io)
       IN  /\ MayFail(w.err)
           /\ index' = e.index
           /\ docStats' = e.docStats
           /\ avgDocLength' = e.avgDocLength
           /\ db' = w.db
           /\ last' = Returned("upsert", doc.ID, <<doc>>, w.err, <<>>, Entry(docStats, doc.ID))
           /\ faults' = faults + Failed(w.err)
    /\ UNCHANGED <<engine, mu, idxMu, pc, call, calls>>

EngineDeleteDocument(docID, io) ==
    /\ engine = "open" /\ Quiet
    /\ LET e == DeleteMem(Mem, docID)
           w == DeletePersist(db, docID, e.index, io)
       IN  /\ MayFail(w.err)
           /\ index' = e.index
           /\ docStats' = e.docStats
           /\ avgDocLength' = e.avgDocLength
           /\ db' = w.db
           /\ last' = Returned("delete", docID, <<>>, w.err, <<>>, Entry(docStats, docID))
           /\ faults' = faults + Failed(w.err)
    /\ UNCHANGED <<engine, mu, idxMu, pc, call, calls>>

EngineGetDocument(docID) ==
    /\ engine = "open" /\ Quiet
    /\ last' = Returned("get", docID, <<>>, "", GetDocument(db, docID), <<>>)
    /\ UNCHANGED <<index, docStats, avgDocLength, db, engine, mu, idxMu, pc, call, faults, calls>>

\* a search whose ranking looks every query term up in the term
\* frequencies of each candidate by inserting it with the count 0
EngineSearchInsertsTerms(query, options) ==
    /\ engine = "open" /\ Quiet
    /\ \E candidateIDs \in CandidateOrders(index, query, options) :
          /\ last' = Returned("search", "", <<>>, "",
                              <<SearchResult(Mem, db, query, options, candidateIDs)>>, <<>>)
          /\ docStats' =
                [id \in DOMAIN docStats |->
                    IF options.UseRanking /\ id \in Range(candidateIDs)
                    THEN [docStats[id] EXCEPT !.TermFrequencies =
                            [t \in DOMAIN @ \cup Range(analyze(query)) |->
                                IF t \in DOMAIN @ THEN @[t] ELSE 0]]
                    ELSE docStats[id]]
    /\ UNCHANGED <<index, avgDocLength, db, engine, mu, idxMu, pc, call, faults, calls>>

EngineSearch(query, options) ==
    /\ engine = "open" /\ Quiet
    /\ \E candidateIDs \in CandidateOrders(index, query, options) :
          last' = Returned("search", "", <<>>, "",
                           <<SearchResult(Mem, db, query, options, candidateIDs)>>, <<>>)
    /\ UNCHANGED <<index, docStats, avgDocLength, db, engine, mu, idxMu, pc, call, faults, calls>>

EngineStats ==
    /\ engine = "open" /\ Quiet
    /\ last' = Returned("stats", "", <<>>, "", <<IndexStats(index)>>, <<>>)
    /\ UNCHANGED <<index, docStats, avgDocLength, db, engine, mu, idxMu, pc, call, faults, calls>>

\* SearchEngine.Close: the in-memory engine is dropped with the process
EngineClose ==
    /\ engine = "open" /\ Quiet
    /\ engine' = "closed"
    /\ last' = Returned("close", "", <<>>, "", <<>>, <<>>)
    /\ UNCHANGED <<index, docStats, avgDocLength, db, mu, idxMu, pc, call, faults, calls>>

\* NewSearchEngine on the file a closed engine left
EngineOpen ==
    /\ engine = "closed"
    /\ index' = NewSearchEngine(db).index
    /\ docStats' = NewSearchEngine(db).docStats
    /\ avgDocLength' = NewSearchEngine(db).avgDocLength
    /\ engine' = "open"
    /\ last' = Returned("open", "", <<>>, "", <<>>, <<>>)
    /\ UNCHANGED <<db, mu, idxMu, pc, call, faults, calls>>

Next ==
    \/ \E doc \in RegularDocuments : EngineUpsertDocument(doc, 0)
    \/ \E docID \in RegularIds : EngineDeleteDocument(docID, 0)
    \/ \E docID \in RegularIds : EngineGetDocument(docID)
    \/ \E query \in Queries, options \in SearchOptions : EngineSearch(query, options)
    \/ EngineStats
    \/ EngineClose
    \/ EngineOpen

Spec == Init /\ [][Next]_vars

NextFaults ==
    \/ \E doc \in FaultDocuments, io \in IOFailures : EngineUpsertDocument(doc, io)
    \/ \E docID \in FaultIds, io \in IOFailures : EngineDeleteDocument(docID, io)
    \/ \E docID \in FaultIds : EngineGetDocument(docID)
    \/ \E query \in Queries, options \in SearchOptions : EngineSearch(query, options)
    \/ EngineClose
    \/ EngineOpen

SpecFaults == Init /\ [][NextFaults]_vars

(***************************************************************************)
(* SpecExample: the calls of Spec on the documents {title "go", content    *)
(* "go go go"} and {title "go", content "other"} under the ids x and y.    *)
(***************************************************************************)
ExampleIds == {"x", "y"}

ExampleBodies ==
    { [Title |-> <<"g", "o">>, Content |-> <<"g", "o", " ", "g", "o", " ", "g", "o">>],
      [Title |-> <<"g", "o">>, Content |-> <<"o", "t", "h", "e", "r">>] }

ExampleDocuments ==
    {NewDocument(id, b.Title, b.Content) : id \in ExampleIds, b \in ExampleBodies}

ExampleQueries == { <<"g", "o">>, <<"o", "t", "h", "e", "r">> }

ExampleOptions ==
    { DefaultSearchOptions,
      [Mode |-> SearchModeOR, UseRanking |-> FALSE, Limit |-> 10, Offset |-> 0] }

NextExample ==
    \/ \E doc \in ExampleDocuments : EngineUpsertDocument(doc, 0)
    \/ \E docID \in ExampleIds : EngineDeleteDocument(docID, 0)
    \/ \E query \in ExampleQueries, options \in ExampleOptions : EngineSearch(query, options)

SpecExample == Init /\ [][NextExample]_vars

(***************************************************************************)
(* SpecCrash: the process dies inside UpsertDocument or DeleteDocument     *)
(* after `done` of the call's three store writes; each write is one bbolt  *)
(* transaction, so the file holds the first `done` writes whole and        *)
(* nothing of the others.                                                  *)
(***************************************************************************)
CrashPoints == 1..2

\* the file after the first done writes of UpsertDocument
UpsertWrites(d, doc, done) ==
    LET w1 == SaveDocument(d, doc, FALSE)
        w2 == SaveDocStats(w1.db, MakeDocStats(doc.ID, analyze(SearchableText(doc))), FALSE)
    IN  IF done = 1 THEN w1.db ELSE w2.db

\* the file after the first done writes of DeleteDocument
DeleteWrites(d, docID, done) ==
    LET w1 == DeleteDocument(d, docID, FALSE)
        w2 == DeleteDocStats(w1.db, docID, FALSE)
    IN  IF done = 1 THEN w1.db ELSE w2.db

\* UpsertDocument cut short by the death of the process
CrashInUpsert(doc, done) ==
    /\ engine = "open" /\ Quiet /\ faults < MaxFaults
    /\ LET e == UpsertMem(Mem, doc)
       IN  /\ index' = e.index
           /\ docStats' = e.docStats
           /\ avgDocLength' = e.avgDocLength
           /\ db' = UpsertWrites(db, doc, done)
    /\ engine' = "closed"
    /\ last' = Returned("crash", doc.ID, <<doc>>, "", <<>>, Entry(docStats, doc.ID))
    /\ faults' = faults + 1
    /\ UNCHANGED <<mu, idxMu, pc, call, calls>>

\* DeleteDocument cut short by the death of the process
CrashInDelete(docID, done) ==
    /\ engine = "open" /\ Quiet /\ faults < MaxFaults
    /\ LET e == DeleteMem(Mem, docID)
       IN  /\ index' = e.index
           /\ docStats' = e.docStats
           /\ avgDocLength' = e.avgDocLength
           /\ db' = DeleteWrites(db, docID, done)
    /\ engine' = "closed"
    /\ last' = Returned("crash", docID, <<>>, "", <<>>, Entry(docStats, docID))
    /\ faults' = faults + 1
    /\ UNCHANGED <<mu, idxMu, pc, call, calls>>

NextCrash ==
    \/ \E doc \in ConcDocuments : EngineUpsertDocument(doc, 0)
    \/ \E docID \in ConcIds : EngineDeleteDocument(docID, 0)
    \/ \E doc \in ConcDocuments, done \in CrashPoints : CrashInUpsert(doc, done)
    \/ \E docID \in ConcIds, done \in CrashPoints : CrashInDelete(docID, done)
    \/ \E query \in ConcQueries, options \in ConcOptions : EngineSearch(query, options)
    \/ EngineOpen

SpecCrash == Init /\ [][NextCrash]_vars

(***************************************************************************)
(* SpecApi: the handlers of api.go.  A query parameter is a sequence of    *)
(* characters, <<>> when the request does not carry it; a status is the    *)
(* name of the net/http constant the handler replies with.                 *)
(***************************************************************************)
Digits == <<"0", "1", "2", "3", "4", "5", "6", "7", "8", "9">>

DigitValue(c) == (CHOOSE i \in 1..Len(Digits) : Digits[i] = c) - 1

RECURSIVE Decimal(_, _)
\* the value of the digits s read after the value n
Decimal(s, n) == IF s = <<>> THEN n ELSE Decimal(Tail(s), 10 * n + DigitValue(Head(s)))

RECURSIVE Itoa(_)
\* strconv.Itoa of n >= 0
Itoa(n) == IF n < 10 THEN <<Digits[n + 1]>> ELSE Append(Itoa(n \div 10), Digits[(n % 10) + 1])

RECURSIVE StripZeros(_)
\* the digits s without their leading zeros, the last digit kept
StripZeros(s) == IF Len(s) > 1 /\ Head(s) = "0" THEN StripZeros(Tail(s)) ELSE s

\* strconv.Atoi: an optional sign and at least one decimal digit, leading
\* zeros allowed, the value within the range of int (-MaxInt - 1 .. MaxInt)
Atoi(s) ==
    LET signed == Len(s) > 0 /\ Head(s) \in {"+", "-"}
        negative == Len(s) > 0 /\ Head(s) = "-"
        digits == IF signed THEN Tail(s) ELSE s
        significant == StripZeros(digits)
    IN  IF \/ digits = <<>>
           \/ \E i \in 1..Len(digits) : digits[i] \notin Range(Digits)
           \/ Len(significant) > Len(Itoa(MaxInt))
           \/ Decimal(significant, 0) > MaxInt + (IF negative THEN 1 ELSE 0)
        THEN [err |-> TRUE, n |-> 0]
        ELSE [err |-> FALSE,
              n |-> IF negative THEN 0 - Decimal(significant, 0)
                    ELSE Decimal(significant, 0)]

\* the options handleSearch builds from the query parameters
ParseOptions(req) ==
    LET limit == Atoi(req.limit)
        offset == Atoi(req.offset)
    IN  [Mode |-> IF req.mode = "or" THEN SearchModeOR ELSE DefaultSearchOptions.Mode,
         UseRanking |-> IF req.ranked = "false" THEN FALSE ELSE DefaultSearchOptions.UseRanking,
         Limit |-> IF req.limit # <<>> /\ ~limit.err /\ limit.n > 0
                   THEN limit.n ELSE DefaultSearchOptions.Limit,
         Offset |-> IF req.offset # <<>> /\ ~offset.err /\ offset.n >= 0
                    THEN offset.n ELSE DefaultSearchOptions.Offset]

\* GET /search: one call of Search, which other requests do not hold
\* back; a panic below the handler is recovered by the Recovery middleware
\* of gin.Default, which replies 500
HandleSearch(req) ==
    /\ engine = "open"
    /\ IF req.query = <<>>
       THEN last' = Returned("handleSearch", "", <<req>>, "query parameter is required",
                             <<[status |-> "StatusBadRequest"]>>, <<>>)
       ELSE \E candidateIDs \in CandidateOrders(index, req.query, ParseOptions(req)) :
               LET result == SearchResult(Mem, db, req.query, ParseOptions(req), candidateIDs)
               IN  last' = Returned("handleSearch", "", <<req>>, "",
                                    <<[status |-> IF "panic" \in DOMAIN result
                                                  THEN "StatusInternalServerError"
                                                  ELSE "StatusOK",
                                       options |-> ParseOptions(req),
                                       data |-> result]>>,
                                    <<>>)
    /\ UNCHANGED <<index, docStats, avgDocLength, db, engine, mu, idxMu, pc, call, faults, calls>>

\* the document the handlers build from an insertDocumentRequest
RequestDocument(docReq) ==
    [NewDocument(docReq.ID, docReq.Title, docReq.Content) EXCEPT !.URL = docReq.URL]

\* ShouldBindJSON of an insertDocumentRequest: id, title and content carry
\* binding:"required", which the empty string fails
BindsDocument(docReq) == docReq.ID # "" /\ docReq.Title # <<>> /\ docReq.Content # <<>>

\* POST /documents and PUT /documents/:id, which builds the document with
\* the id of the path: one call of UpsertDocument
HandleUpsertDocument(op, docID, docReq) ==
    /\ engine = "open"
    /\ IF ~BindsDocument(docReq)
       THEN /\ last' = Returned(op, docID, <<docReq>>, "required",
                                <<[status |-> "StatusBadRequest"]>>, <<>>)
            /\ UNCHANGED <<index, docStats, avgDocLength, db, faults>>
       ELSE LET doc == [RequestDocument(docReq) EXCEPT !.ID = docID]
                m == UpsertMem(Mem, doc)
                w == UpsertPersist(db, doc, m.index, 0)
            IN  /\ MayFail(w.err)
                /\ index' = m.index
                /\ docStats' = m.docStats
                /\ avgDocLength' = m.avgDocLength
                /\ db' = w.db
                /\ faults' = faults + Failed(w.err)
                /\ last' = Returned(op, docID, <<docReq>>, w.err,
                                    <<[status |-> IF w.err = "" THEN "StatusOK"
                                                  ELSE "StatusInternalServerError"]>>, <<>>)
    /\ UNCHANGED <<engine, mu, idxMu, pc, call, calls>>

HandleInsertDocument(docReq) == HandleUpsertDocument("handleInsertDocument", docReq.ID, docReq)

HandleUpdateDocument(id, docReq) == HandleUpsertDocument("handleUpdateDocument", id, docReq)

\* DELETE /documents/:id: one call of DeleteDocument
HandleDeleteDocument(id) ==
    /\ engine = "open"
    /\ LET m == DeleteMem(Mem, id)
           w == DeletePersist(db, id, m.index, 0)
       IN  /\ MayFail(w.err)
           /\ index' = m.index
           /\ docStats' = m.docStats
           /\ avgDocLength' = m.avgDocLength
           /\ db' = w.db
           /\ faults' = faults + Failed(w.err)
           /\ last' = Returned("handleDeleteDocument", id, <<>>, w.err,
                               <<[status |-> IF w.err = "" THEN "StatusOK"
                                             ELSE "StatusInternalServerError"]>>, <<>>)
    /\ UNCHANGED <<engine, mu, idxMu, pc, call, calls>>

\* POST /documents/batch arrives at goroutine t; req.documents is <<>> for
\* a body without the field and <<docs>> for a body with the list docs.
\* The handler replies at once to a body it cannot bind and to an empty
\* list, and goes into its loop otherwise.
HandleBatchInsert(t, req) ==
    /\ engine = "open" /\ pc[t] = "idle"
    /\ IF req.documents = <<>>
       THEN /\ last' = Returned("handleBatchInsert", "", <<req>>, "required",
                                <<[status |-> "StatusBadRequest"]>>, <<>>)
            /\ UNCHANGED <<pc, call>>
       ELSE IF Len(req.documents[1]) = 0
       THEN /\ last' = Returned("handleBatchInsert", "", <<req>>, "",
                                <<[status |-> "StatusOK"]>>, <<>>)
            /\ UNCHANGED <<pc, call>>
       ELSE /\ call' = [call EXCEPT ![t] = [op |-> "batch", req |-> req, i |-> 1]]
            /\ pc' = [pc EXCEPT ![t] = "batch_upsert"]
            /\ UNCHANGED last
    /\ UNCHANGED <<index, docStats, avgDocLength, db, engine, mu, idxMu, faults, calls>>

\* a loop that goes on to the later documents after an error, and replies
\* after the last one
BatchUpsertContinues(t) ==
    /\ pc[t] = "batch_upsert"
    /\ LET docs == call[t].req.documents[1]
           i == call[t].i
           doc == RequestDocument(docs[i])
           m == UpsertMem(Mem, doc)
           w == UpsertPersist(db, doc, m.index, 0)
           replies == i = Len(docs)
       IN  /\ MayFail(w.err)
           /\ index' = m.index
           /\ docStats' = m.docStats
           /\ avgDocLength' = m.avgDocLength
           /\ db' = w.db
           /\ faults' = faults + Failed(w.err)
           /\ last' = IF replies
                      THEN Returned("handleBatchInsert", "", <<call[t].req>>, w.err,
                                    <<[status |-> IF w.err = "" THEN "StatusOK"
                                                  ELSE "StatusInternalServerError"]>>, <<>>)
                      ELSE last
           /\ call' = [call EXCEPT ![t] = IF replies THEN NoCall ELSE [@ EXCEPT !.i = i + 1]]
           /\ pc' = [pc EXCEPT ![t] = IF replies THEN "idle" ELSE "batch_upsert"]
    /\ UNCHANGED <<engine, mu, idxMu, calls>>

\* one round of the loop of handleBatchInsert: UpsertDocument of the i-th
\* document, e.mu being free before and after it.  The handler replies 500
\* and returns on an error, and replies 200 after the last document.
BatchUpsert(t) ==
    /\ pc[t] = "batch_upsert"
    /\ LET docs == call[t].req.documents[1]
           i == call[t].i
           doc == RequestDocument(docs[i])
           m == UpsertMem(Mem, doc)
           w == UpsertPersist(db, doc, m.index, 0)
           replies == w.err # "" \/ i = Len(docs)
       IN  /\ MayFail(w.err)
           /\ index' = m.index
           /\ docStats' = m.docStats
           /\ avgDocLength' = m.avgDocLength
           /\ db' = w.db
           /\ faults' = faults + Failed(w.err)
           /\ last' = IF replies
                      THEN Returned("handleBatchInsert", "", <<call[t].req>>, w.err,
                                    <<[status |-> IF w.err = "" THEN "StatusOK"
                                                  ELSE "StatusInternalServerError"]>>, <<>>)
                      ELSE last
           /\ call' = [call EXCEPT ![t] = IF replies THEN NoCall ELSE [@ EXCEPT !.i = i + 1]]
           /\ pc' = [pc EXCEPT ![t] = IF replies THEN "idle" ELSE "batch_upsert"]
    /\ UNCHANGED <<engine, mu, idxMu, calls>>

\* The requests the handlers are called with.  The elements of a batch are
\* not validated (the field has no dive tag), so an element with the empty
\* id reaches UpsertDocument, whose first store write bbolt refuses.
DocumentRequests ==
    { [ID |-> id, Title |-> b.Title, Content |-> b.Content, URL |-> b.URL] :
        id \in FaultIds, b \in {x \in Bodies : Len(x.Title) > 1} }

BatchRequests ==
    { [documents |-> <<>>] } \cup
    { [documents |-> <<docs>>] :
        docs \in UNION {[1..n -> DocumentRequests] : n \in 0..MaxBatch} }

\* the goroutine that serves the batch requests, one at a time; the other
\* requests are served between its upserts
BatchGoroutine == CHOOSE t \in Threads : TRUE

\* the ids a path /documents/:id names
PathIds == FaultIds \ {""}

\* GET /search?query=go with at most one more parameter, and without query
PlainSearch ==
    [query |-> <<"g", "o">>, mode |-> "", ranked |-> "", limit |-> <<>>, offset |-> <<>>]

SearchRequests ==
    { PlainSearch, [PlainSearch EXCEPT !.query = <<>>] }
    \cup { [PlainSearch EXCEPT !.mode = m] : m \in {"and", "or", "xor"} }
    \cup { [PlainSearch EXCEPT !.ranked = r] : r \in {"true", "false"} }
    \cup { [PlainSearch EXCEPT !.limit = l] :
              l \in { <<"1">>, <<"0">>, <<"-", "1">>, <<"x">>, <<"0", "0", "0", "0", "0", "1">> } }
    \cup { [PlainSearch EXCEPT !.offset = o] : o \in { <<"1">>, <<"-", "1">>, <<"x">> } }
    \cup { [PlainSearch EXCEPT !.limit = Itoa(MaxInt), !.offset = <<"1">>],
           [PlainSearch EXCEPT !.limit = Itoa(MaxInt)],
           [PlainSearch EXCEPT !.limit = Append(Itoa(MaxInt), "0")] }

NextApi ==
    \/ \E docReq \in DocumentRequests : HandleInsertDocument(docReq)
    \/ \E id \in PathIds, docReq \in DocumentRequests : HandleUpdateDocument(id, docReq)
    \/ \E id \in PathIds : HandleDeleteDocument(id)
    \/ \E req \in BatchRequests : HandleBatchInsert(BatchGoroutine, req)
    \/ BatchUpsert(BatchGoroutine)
    \/ \E req \in SearchRequests : HandleSearch(req)

SpecApi == Init /\ [][NextApi]_vars

\* the batch insert, with single inserts and deletes served between its
\* upserts
NextBatch ==
    \/ \E docReq \in DocumentRequests : HandleInsertDocument(docReq)
    \/ \E id \in PathIds : HandleDeleteDocument(id)
    \/ \E req \in BatchRequests : HandleBatchInsert(BatchGoroutine, req)
    \/ BatchUpsert(BatchGoroutine)

SpecBatch == Init /\ [][NextBatch]_vars

(***************************************************************************)
(* SpecAnalyze: analyze as a function of its argument.  The run starts     *)
(* with a text as the pending input and the one step applies analyze.      *)
(***************************************************************************)
Alphabet == {"G", "o", "e'", "7", " "}

Texts == UNION {[1..n -> Alphabet] : n \in 0..MaxLen}

InitAnalyze ==
    /\ index = NewIndex
    /\ docStats = <<>>
    /\ avgDocLength = Zero
    /\ db = EmptyDB
    /\ engine = "closed"
    /\ mu = Unlocked
    /\ idxMu = Unlocked
    /\ pc = [t \in Threads |-> "idle"]
    /\ call = [t \in Threads |-> NoCall]
    /\ \E text \in Texts : last = Returned("text", "", <<>>, "", <<text>>, <<>>)
    /\ faults = 0
    /\ calls = 0

\* tokens := analyze(text): out becomes <<text, tokens>>
AnalyzeText ==
    /\ last.op = "text"
    /\ last' = Returned("analyze", "", <<>>, "", <<last.out[1], analyze(last.out[1])>>, <<>>)
    /\ UNCHANGED <<index, docStats, avgDocLength, db, engine, mu, idxMu, pc, call, faults, calls>>

NextAnalyze == AnalyzeText

SpecAnalyze == InitAnalyze /\ [][NextAnalyze]_vars

(***************************************************************************)
(* SpecRank: RankDocuments as a function of its arguments.  The candidates *)
(* are the first n ids of RankIds, in that order; those at the positions   *)
(* heavy have the text "go go go", the others "rs go", and the index is    *)
(* the one AddDocument builds from them.  The query is "go".               *)
(***************************************************************************)
RankIds == <<"d01", "d02", "d03", "d04", "d05", "d06", "d07",
             "d08", "d09", "d10", "d11", "d12", "d13">>

RankLengths == {3, MaxInsertion + 1}

RankTokens(i, heavy) ==
    IF i \in heavy THEN << <<"g", "o">>, <<"g", "o">>, <<"g", "o">> >>
    ELSE << <<"r", "s">>, <<"g", "o">> >>

RankStats(n, heavy) ==
    [id \in {RankIds[i] : i \in 1..n} |->
        LET i == CHOOSE k \in 1..n : RankIds[k] = id
        IN  MakeDocStats(id, RankTokens(i, heavy))]

RECURSIVE RankIndex(_, _)
RankIndex(n, heavy) ==
    IF n = 0 THEN NewIndex
    ELSE AddDocument(RankIndex(n - 1, heavy), RankIds[n], RankTokens(n, heavy))

InitRank ==
    /\ \E n \in RankLengths, heavy \in SUBSET (1..Len(RankIds)) :
          /\ heavy \subseteq 1..n
          /\ Cardinality(heavy) <= 2
          /\ index = RankIndex(n, heavy)
          /\ docStats = RankStats(n, heavy)
          /\ avgDocLength = AvgLength(RankStats(n, heavy))
          /\ last = Returned("candidates", "", <<>>, "", <<SubSeq(RankIds, 1, n)>>, <<>>)
    /\ db = EmptyDB
    /\ engine = "closed"
    /\ mu = Unlocked
    /\ idxMu = Unlocked
    /\ pc = [t \in Threads |-> "idle"]
    /\ call = [t \in Threads |-> NoCall]
    /\ faults = 0
    /\ calls = 0

\* scoredDocs := RankDocuments(queryTokens, candidateIDs, ...): out becomes
\* <<candidateIDs, scoredDocs>>
RankCandidates ==
    /\ last.op = "candidates"
    /\ last' = Returned("rank", "", <<>>, "",
                        <<last.out[1],
                          RankDocuments(<< <<"g", "o">> >>, last.out[1], docStats,
                                        index, avgDocLength)>>, <<>>)
    /\ UNCHANGED <<index, docStats, avgDocLength, db, engine, mu, idxMu, pc, call, faults, calls>>

NextRank == RankCandidates

SpecRank == InitRank /\ [][NextRank]_vars

(***************************************************************************)
(* SpecIndex: AddDocument, RemoveDocument and UpdateDocument called on the *)
(* index by several goroutines, with the token lists of the documents.  A  *)
(* step is one critical section of idx.mu.                                 *)
(***************************************************************************)
TokenSequences == {analyze(SearchableText(d)) : d \in Documents}

IndexAddDocument(docID, tokens) ==
    /\ index.docCount < MaxDocCount
    /\ index' = AddDocument(index, docID, tokens)
    /\ last' = Returned("add", docID, <<>>, "", <<tokens>>, <<>>)
    /\ UNCHANGED <<docStats, avgDocLength, db, engine, mu, idxMu, pc, call, faults, calls>>

IndexRemoveDocument(docID) ==
    /\ index' = RemoveDocument(index, docID)
    /\ last' = Returned("remove", docID, <<>>, "", <<>>, <<>>)
    /\ UNCHANGED <<docStats, avgDocLength, db, engine, mu, idxMu, pc, call, faults, calls>>

\* Index.UpdateDocument of goroutine t, its first half: RemoveDocument in
\* a critical section of its own.  idx.mu is free until AddDocument takes
\* it, so the calls of other goroutines come in between.
IndexUpdateRemove(t, docID, tokens) ==
    /\ pc[t] = "idle"
    /\ index.docCount < MaxDocCount
    /\ index' = RemoveDocument(index, docID)
    /\ call' = [call EXCEPT ![t] = [op |-> "update", id |-> docID, tokens |-> tokens]]
    /\ pc' = [pc EXCEPT ![t] = "update_add"]
    /\ UNCHANGED <<docStats, avgDocLength, db, engine, mu, idxMu, last, faults, calls>>

\* Index.UpdateDocument of goroutine t, its second half: AddDocument
IndexUpdateAdd(t) ==
    /\ pc[t] = "update_add"
    /\ index.docCount < MaxDocCount
    /\ index' = AddDocument(index, call[t].id, call[t].tokens)
    /\ last' = Returned("update", call[t].id, <<>>, "", <<call[t].tokens>>, <<>>)
    /\ call' = [call EXCEPT ![t] = NoCall]
    /\ pc' = [pc EXCEPT ![t] = "idle"]
    /\ UNCHANGED <<docStats, avgDocLength, db, engine, mu, idxMu, faults, calls>>

NextIndex ==
    \/ \E docID \in RegularIds, tokens \in TokenSequences : IndexAddDocument(docID, tokens)
    \/ \E docID \in RegularIds : IndexRemoveDocument(docID)
    \/ \E t \in Threads, docID \in ConcIds, tokens \in TokenSequences :
          IndexUpdateRemove(t, docID, tokens)
    \/ \E t \in Threads : IndexUpdateAdd(t)

SpecIndex == Init /\ [][NextIndex]_vars

(***************************************************************************)
(* SpecConc: the calls of NumThreads goroutines, a step per statement.     *)
(* pc[t] names the statement goroutine t executes next.                    *)
(***************************************************************************)
\* a Lock that does not wait for the readers to leave
CanLockDespiteReaders(m) == m.writer = 0

\* a Lock that does not wait for another writer to leave
CanLockDespiteWriter(m) == m.readers = {}

\* e.mu.Lock() returns when no goroutine holds the lock in either mode
CanLock(m) == m.writer = 0 /\ m.readers = {}

\* an RLock that does not wait for the writer to leave
CanRLockDespiteWriter(m) == TRUE

\* e.mu.RLock() returns when no goroutine holds the lock in exclusive mode
CanRLock(m) == m.writer = 0

Goto(t, label) == pc' = [pc EXCEPT ![t] = label]

\* goroutine t begins a call
Begin(t) == engine = "open" /\ pc[t] = "idle" /\ calls < MaxCalls /\ calls' = calls + 1

Snapshot == [mem |-> Mem, db |-> db]

\* UpsertDocument: e.mu.Lock(), analyze, termFreqs, docStats
UpsertLock(t, doc) ==
    /\ Begin(t) /\ CanLock(mu)
    /\ mu' = [mu EXCEPT !.writer = t]
    /\ call' = [call EXCEPT ![t] =
                  [op |-> "upsert", id |-> doc.ID, doc |-> <<doc>>,
                   tokens |-> analyze(SearchableText(doc)), err |-> "",
                   had |-> Entry(docStats, doc.ID)]]
    /\ Goto(t, "update_remove")
    /\ UNCHANGED <<index, docStats, avgDocLength, db, engine, last, faults, idxMu>>

\* Index.UpdateDocument: idx.RemoveDocument(docID)
UpdateRemove(t) ==
    /\ pc[t] = "update_remove"
    /\ index' = RemoveDocument(index, call[t].id)
    /\ Goto(t, "update_add")
    /\ UNCHANGED <<docStats, avgDocLength, db, engine, mu, idxMu, call, last, faults, calls>>

\* Index.UpdateDocument: idx.AddDocument(docID, tokens)
UpdateAdd(t) ==
    /\ pc[t] = "update_add"
    /\ index' = AddDocument(index, call[t].id, call[t].tokens)
    /\ Goto(t, "set_stats")
    /\ UNCHANGED <<docStats, avgDocLength, db, engine, mu, idxMu, call, last, faults, calls>>

\* e.docStats[doc.ID] = docStats
SetStats(t) ==
    /\ pc[t] = "set_stats"
    /\ docStats' = SetDocStats(docStats, call[t].id, MakeDocStats(call[t].id, call[t].tokens))
    /\ Goto(t, "recalculate")
    /\ UNCHANGED <<index, avgDocLength, db, engine, mu, idxMu, call, last, faults, calls>>

\* DeleteDocument: e.mu.Lock()
DeleteLock(t, docID) ==
    /\ Begin(t) /\ CanLock(mu)
    /\ mu' = [mu EXCEPT !.writer = t]
    /\ call' = [call EXCEPT ![t] =
                  [op |-> "delete", id |-> docID, doc |-> <<>>, err |-> "",
                   had |-> Entry(docStats, docID)]]
    /\ Goto(t, "remove")
    /\ UNCHANGED <<index, docStats, avgDocLength, db, engine, last, faults, idxMu>>

\* DeleteDocument: e.index.RemoveDocument(docID)
Remove(t) ==
    /\ pc[t] = "remove"
    /\ index' = RemoveDocument(index, call[t].id)
    /\ Goto(t, "delete_stats")
    /\ UNCHANGED <<docStats, avgDocLength, db, engine, mu, idxMu, call, last, faults, calls>>

\* DeleteDocument: delete(e.docStats, docID)
DeleteStats(t) ==
    /\ pc[t] = "delete_stats"
    /\ docStats' = DeleteDocStatsEntry(docStats, call[t].id)
    /\ Goto(t, "recalculate")
    /\ UNCHANGED <<index, avgDocLength, db, engine, mu, idxMu, call, last, faults, calls>>

\* e.recalculateAvgLength() of either call
Recalculate(t) ==
    /\ pc[t] = "recalculate"
    /\ avgDocLength' = AvgLength(docStats)
    /\ Goto(t, IF call[t].op = "upsert" THEN "save_document" ELSE "delete_document")
    /\ UNCHANGED <<index, docStats, db, engine, mu, idxMu, call, last, faults, calls>>

\* a store write w of goroutine t: on an error the call sets its error and
\* goes to its deferred Unlock, else it goes on to the statement next
StoreWrite(t, w, msg, next) ==
    /\ MayFail(IF w.err THEN msg ELSE "")
    /\ db' = w.db
    /\ faults' = faults + (IF w.err THEN 1 ELSE 0)
    /\ call' = [call EXCEPT ![t].err = IF w.err THEN msg ELSE ""]
    /\ Goto(t, IF w.err THEN "unlock" ELSE next)
    /\ UNCHANGED <<index, docStats, avgDocLength, engine, mu, idxMu, last, calls>>

SaveDocumentStep(t, ioErr) ==
    /\ pc[t] = "save_document"
    /\ StoreWrite(t, SaveDocument(db, call[t].doc[1], ioErr),
                  "failed to save document", "save_doc_stats")

SaveDocStatsStep(t, ioErr) ==
    /\ pc[t] = "save_doc_stats"
    /\ StoreWrite(t, SaveDocStats(db, MakeDocStats(call[t].id, call[t].tokens), ioErr),
                  "failed to save doc stats", "save_index")

DeleteDocumentStep(t, ioErr) ==
    /\ pc[t] = "delete_document"
    /\ StoreWrite(t, DeleteDocument(db, call[t].id, ioErr),
                  "failed to delete document", "delete_doc_stats")

DeleteDocStatsStep(t, ioErr) ==
    /\ pc[t] = "delete_doc_stats"
    /\ StoreWrite(t, DeleteDocStats(db, call[t].id, ioErr),
                  "failed to delete doc stats", "save_index")

SaveIndexStep(t, ioErr) ==
    /\ pc[t] = "save_index"
    /\ StoreWrite(t, SaveIndex(db, index, ioErr), "failed to save index", "unlock")

\* the deferred e.mu.Unlock() and the return; the readers that wait in
\* RLock are let in
Unlock(t) ==
    /\ pc[t] = "unlock"
    /\ mu' = [writer |-> 0,
              readers |-> mu.readers \cup {u \in Threads : pc[u] = "e_rlock_wait"}]
    /\ last' = Returned(call[t].op, call[t].id, call[t].doc, call[t].err, <<>>, call[t].had)
    /\ call' = [call EXCEPT ![t] = NoCall]
    /\ Goto(t, "idle")
    /\ UNCHANGED <<index, docStats, avgDocLength, db, engine, faults, calls, idxMu>>

\* Search: e.mu.RLock() and analyze(query)
SearchRLock(t, query, options) ==
    /\ Begin(t) /\ CanRLock(mu)
    /\ mu' = [mu EXCEPT !.readers = @ \cup {t}]
    /\ call' = [call EXCEPT ![t] =
                  [op |-> "search", options |-> options, queryTokens |-> analyze(query),
                   query |-> query, candidateIDs |-> <<>>, page |-> [ids |-> <<>>, scores |-> <<>>],
                   documents |-> <<>>, total |-> 0, i |-> 1, panicked |-> FALSE,
                   at |-> Snapshot]]
    /\ Goto(t, IF Len(analyze(query)) = 0 THEN "runlock" ELSE "candidates")
    /\ UNCHANGED <<index, docStats, avgDocLength, db, engine, last, faults, idxMu>>

\* Search: e.index.SearchAND / SearchOR and total
Candidates(t) ==
    /\ pc[t] = "candidates"
    /\ \E candidateIDs \in Orders(CandidateSet(index, call[t].queryTokens, call[t].options)) :
          call' = [call EXCEPT ![t].candidateIDs = candidateIDs,
                               ![t].total = Len(candidateIDs)]
    /\ Goto(t, "rank")
    /\ UNCHANGED <<index, docStats, avgDocLength, db, engine, mu, idxMu, last, faults, calls>>

\* Search: RankDocuments and the pagination.  A slice out of range
\* panics, and the panic runs the deferred RUnlock.
Rank(t) ==
    /\ pc[t] = "rank"
    /\ LET ranked == Ranked(Mem, call[t].queryTokens, call[t].candidateIDs, call[t].options)
       IN  IF SliceInRange(PageBounds(Len(ranked.ids), call[t].options), Len(ranked.ids))
           THEN /\ call' = [call EXCEPT ![t].page = Page(ranked, call[t].options)]
                /\ Goto(t, "fetch")
           ELSE /\ call' = [call EXCEPT ![t].panicked = TRUE]
                /\ Goto(t, "runlock")
    /\ UNCHANGED <<index, docStats, avgDocLength, db, engine, mu, idxMu, last, faults, calls>>

\* Search: one round of the loop over pageIDs, its own View transaction
Fetch(t) ==
    /\ pc[t] = "fetch"
    /\ IF call[t].i > Len(call[t].page.ids)
       THEN /\ Goto(t, "runlock")
            /\ UNCHANGED call
       ELSE /\ call' = [call EXCEPT
                         ![t].documents = @ \o GetDocument(db, call[t].page.ids[call[t].i]),
                         ![t].i = @ + 1]
            /\ UNCHANGED pc
    /\ UNCHANGED <<index, docStats, avgDocLength, db, engine, mu, idxMu, last, faults, calls>>

\* Stats: e.mu.RLock()
StatsRLock(t) ==
    /\ Begin(t) /\ CanRLock(mu)
    /\ mu' = [mu EXCEPT !.readers = @ \cup {t}]
    /\ call' = [call EXCEPT ![t] =
                  [op |-> "stats", out |-> <<>>, panicked |-> FALSE, at |-> Snapshot]]
    /\ Goto(t, "index_stats")
    /\ UNCHANGED <<index, docStats, avgDocLength, db, engine, last, faults, idxMu>>

\* Stats: e.index.Stats()
ReadIndexStats(t) ==
    /\ pc[t] = "index_stats"
    /\ call' = [call EXCEPT ![t].out = <<IndexStats(index)>>]
    /\ Goto(t, "runlock")
    /\ UNCHANGED <<index, docStats, avgDocLength, db, engine, mu, idxMu, last, faults, calls>>

\* the result a reader returns, or the panic that goes on to its caller
ReaderOut(c) ==
    IF c.panicked THEN <<[panic |-> "slice bounds out of range"]>>
    ELSE IF c.op = "stats" THEN c.out
    ELSE <<[Documents |-> c.documents, Total |-> c.total, Scores |-> c.page.scores]>>

\* the deferred e.mu.RUnlock() and the return
RUnlock(t) ==
    /\ pc[t] = "runlock"
    /\ mu' = [mu EXCEPT !.readers = @ \ {t}]
    /\ last' = Returned(call[t].op, "", <<>>, "", ReaderOut(call[t]), <<>>)
    /\ call' = [call EXCEPT ![t] = NoCall]
    /\ Goto(t, "idle")
    /\ UNCHANGED <<index, docStats, avgDocLength, db, engine, faults, calls, idxMu>>

\* GetDocument takes no lock: one View transaction
GetDocumentStep(t, docID) ==
    /\ Begin(t)
    /\ last' = Returned("get", docID, <<>>, "", GetDocument(db, docID), <<>>)
    /\ UNCHANGED <<index, docStats, avgDocLength, db, engine, mu, idxMu, pc, call, faults>>

NextConc ==
    \E t \in Threads :
        \/ \E doc \in ConcDocuments : UpsertLock(t, doc)
        \/ UpdateRemove(t)
        \/ UpdateAdd(t)
        \/ SetStats(t)
        \/ \E docID \in ConcIds : DeleteLock(t, docID)
        \/ Remove(t)
        \/ DeleteStats(t)
        \/ Recalculate(t)
        \/ \E ioErr \in BOOLEAN : SaveDocumentStep(t, ioErr)
        \/ \E ioErr \in BOOLEAN : SaveDocStatsStep(t, ioErr)
        \/ \E ioErr \in BOOLEAN : DeleteDocumentStep(t, ioErr)
        \/ \E ioErr \in BOOLEAN : DeleteDocStatsStep(t, ioErr)
        \/ \E ioErr \in BOOLEAN : SaveIndexStep(t, ioErr)
        \/ Unlock(t)
        \/ \E search \in ConcSearches : SearchRLock(t, search[1], search[2])
        \/ Candidates(t)
        \/ Rank(t)
        \/ Fetch(t)
        \/ StatsRLock(t)
        \/ ReadIndexStats(t)
        \/ RUnlock(t)
        \/ \E docID \in ConcIds : GetDocumentStep(t, docID)

SpecConc == Init /\ [][NextConc]_vars

(***************************************************************************)
(* SpecLock: the calls of NumThreads goroutines with both locks, e.mu of   *)
(* the engine and idx.mu of its index, a step per acquisition and release. *)
(* e.mu is a sync.RWMutex: Lock first queues behind the other writers,     *)
(* then announces itself, which keeps later readers out, and waits for the *)
(* readers inside to leave; RLock waits only for a writer that has         *)
(* announced itself, and Unlock lets in the readers that wait.  idx.mu is  *)
(* asked for only by goroutines that hold e.mu, a writer under Lock and    *)
(* readers under RLock.  Between the locks of the index the calls run the  *)
(* statements of SpecConc.                                                 *)
(***************************************************************************)
LockDocuments == {d \in ConcDocuments : d.ID = IdPool[1]}

LockIds == {IdPool[1]}

LockQueries == { <<"g", "o">>, <<"a">> }

\* a goroutine inside e.mu.Lock() has announced itself and waits for the
\* readers to leave
EngineWriterPending == \E t \in Threads : pc[t] = "e_lock_wait"

HoldsEngine(t) == mu.writer = t \/ t \in mu.readers

HoldsIndex(t) == idxMu.writer = t \/ t \in idxMu.readers

\* the goroutine is inside a call to a lock of the index
AtIndexLock(t) ==
    pc[t] \in {"remove_lock", "add_lock", "search_rlock", "total_rlock",
               "freq_rlock", "stats_rlock"}

\* BM25.Score: the position after q of the next query term the document
\* holds (tf > 0), for which DocFrequency is called; 0 when there is none
NextTerm(stats, queryTokens, q) ==
    LET later == {k \in (q + 1)..Len(queryTokens) :
                    queryTokens[k] \in DOMAIN stats.TermFrequencies
                      /\ stats.TermFrequencies[queryTokens[k]] > 0}
    IN  IF later = {} THEN 0 ELSE CHOOSE k \in later : \A m \in later : k <= m

\* RankDocuments: the position after c of the next candidate with a stats
\* entry, for which BM25.Score is called; 0 when there is none
NextScored(stats, candidateIDs, c) ==
    LET later == {k \in (c + 1)..Len(candidateIDs) : candidateIDs[k] \in DOMAIN stats}
    IN  IF later = {} THEN 0 ELSE CHOOSE k \in later : \A m \in later : k <= m

\* UpsertDocument is called: e.mu.Lock()
CallUpsert(t, doc) ==
    /\ Begin(t)
    /\ call' = [call EXCEPT ![t] =
                  [op |-> "upsert", id |-> doc.ID, doc |-> <<doc>>,
                   tokens |-> analyze(SearchableText(doc)), err |-> "", had |-> <<>>]]
    /\ Goto(t, "e_lock")
    /\ UNCHANGED <<index, docStats, avgDocLength, db, engine, mu, idxMu, last, faults>>

\* DeleteDocument is called: e.mu.Lock()
CallDelete(t, docID) ==
    /\ Begin(t)
    /\ call' = [call EXCEPT ![t] =
                  [op |-> "delete", id |-> docID, doc |-> <<>>, err |-> "", had |-> <<>>]]
    /\ Goto(t, "e_lock")
    /\ UNCHANGED <<index, docStats, avgDocLength, db, engine, mu, idxMu, last, faults>>

\* e.mu.Lock(): the goroutine gets past the other writers and announces
\* itself.  With no reader inside the call returns, and both calls go on to
\* idx.RemoveDocument; otherwise it waits for the readers to leave.
EngineLock(t) ==
    /\ pc[t] = "e_lock" /\ CanRLock(mu) /\ ~EngineWriterPending
    /\ IF CanLock(mu)
       THEN /\ mu' = [mu EXCEPT !.writer = t]
            /\ call' = [call EXCEPT ![t].had = Entry(docStats, call[t].id)]
            /\ Goto(t, "remove_lock")
       ELSE /\ Goto(t, "e_lock_wait")
            /\ UNCHANGED <<mu, call>>
    /\ UNCHANGED <<index, docStats, avgDocLength, db, engine, idxMu, last, faults, calls>>

\* e.mu.Lock() returns to the writer that waited: the last reader has left
EngineLockWoken(t) ==
    /\ pc[t] = "e_lock_wait" /\ CanLock(mu)
    /\ mu' = [mu EXCEPT !.writer = t]
    /\ call' = [call EXCEPT ![t].had = Entry(docStats, call[t].id)]
    /\ Goto(t, "remove_lock")
    /\ UNCHANGED <<index, docStats, avgDocLength, db, engine, idxMu, last, faults, calls>>

\* idx.mu.Lock() of RemoveDocument or AddDocument returns
IndexLock(t) ==
    /\ pc[t] \in {"remove_lock", "add_lock"} /\ CanLock(idxMu)
    /\ idxMu' = [idxMu EXCEPT !.writer = t]
    /\ Goto(t, IF pc[t] = "remove_lock" THEN "remove_locked" ELSE "add_locked")
    /\ UNCHANGED <<index, docStats, avgDocLength, db, engine, mu, call, last, faults, calls>>

\* a RemoveDocument that returns with idx.mu locked
IndexRemoveKeepsLock(t) ==
    /\ pc[t] = "remove_locked"
    /\ index' = RemoveDocument(index, call[t].id)
    /\ Goto(t, IF call[t].op = "upsert" THEN "add_lock" ELSE "delete_stats")
    /\ UNCHANGED <<docStats, avgDocLength, db, engine, mu, idxMu, call, last, faults, calls>>

\* Index.RemoveDocument under idx.mu, and its deferred idx.mu.Unlock()
IndexRemove(t) ==
    /\ pc[t] = "remove_locked"
    /\ index' = RemoveDocument(index, call[t].id)
    /\ idxMu' = [idxMu EXCEPT !.writer = 0]
    /\ Goto(t, IF call[t].op = "upsert" THEN "add_lock" ELSE "delete_stats")
    /\ UNCHANGED <<docStats, avgDocLength, db, engine, mu, call, last, faults, calls>>

\* Index.AddDocument under idx.mu, and its deferred idx.mu.Unlock()
IndexAdd(t) ==
    /\ pc[t] = "add_locked"
    /\ index' = AddDocument(index, call[t].id, call[t].tokens)
    /\ idxMu' = [idxMu EXCEPT !.writer = 0]
    /\ Goto(t, "set_stats")
    /\ UNCHANGED <<docStats, avgDocLength, db, engine, mu, call, last, faults, calls>>

\* Search is called: e.mu.RLock()
CallSearch(t, query, options) ==
    /\ Begin(t)
    /\ call' = [call EXCEPT ![t] =
                  [op |-> "search", options |-> options, queryTokens |-> analyze(query),
                   query |-> query, candidateIDs |-> <<>>, c |-> 0, q |-> 0,
                   ranked |-> [ids |-> <<>>, scores |-> <<>>],
                   page |-> [ids |-> <<>>, scores |-> <<>>], panicked |-> FALSE,
                   documents |-> <<>>, total |-> 0, i |-> 1]]
    /\ Goto(t, "e_rlock")
    /\ UNCHANGED <<index, docStats, avgDocLength, db, engine, mu, idxMu, last, faults>>

\* Stats is called: e.mu.RLock()
CallStats(t) ==
    /\ Begin(t)
    /\ call' = [call EXCEPT ![t] = [op |-> "stats", out |-> <<>>, panicked |-> FALSE]]
    /\ Goto(t, "e_rlock")
    /\ UNCHANGED <<index, docStats, avgDocLength, db, engine, mu, idxMu, last, faults>>

\* where a reader goes on when e.mu.RLock() has returned: a search of no
\* token returns from there, with its deferred RUnlock
AfterRLock(c) ==
    IF c.op = "stats" THEN "stats_rlock"
    ELSE IF Len(c.queryTokens) = 0 THEN "runlock"
    ELSE "search_rlock"

\* e.mu.RLock(): the call returns when no writer holds e.mu and none has
\* announced itself; otherwise the reader waits for that writer's Unlock
EngineRLock(t) ==
    /\ pc[t] = "e_rlock"
    /\ IF CanRLock(mu) /\ ~EngineWriterPending
       THEN /\ mu' = [mu EXCEPT !.readers = @ \cup {t}]
            /\ Goto(t, AfterRLock(call[t]))
       ELSE /\ Goto(t, "e_rlock_wait")
            /\ UNCHANGED mu
    /\ UNCHANGED <<index, docStats, avgDocLength, db, engine, idxMu, call, last, faults, calls>>

\* e.mu.RLock() returns to the reader that waited: the writer's Unlock has
\* let it in
EngineRLockWoken(t) ==
    /\ pc[t] = "e_rlock_wait" /\ t \in mu.readers
    /\ Goto(t, AfterRLock(call[t]))
    /\ UNCHANGED <<index, docStats, avgDocLength, db, engine, mu, idxMu, call, last, faults, calls>>

\* idx.mu.RLock() of SearchAND/SearchOR, TotalDocuments, DocFrequency or
\* Stats returns: no writer holds idx.mu
IndexRLock(t) ==
    /\ pc[t] \in {"search_rlock", "total_rlock", "freq_rlock", "stats_rlock"}
    /\ CanRLock(idxMu)
    /\ idxMu' = [idxMu EXCEPT !.readers = @ \cup {t}]
    /\ Goto(t, CASE pc[t] = "search_rlock" -> "search_locked"
                 [] pc[t] = "total_rlock" -> "total_locked"
                 [] pc[t] = "freq_rlock" -> "freq_locked"
                 [] pc[t] = "stats_rlock" -> "stats_locked")
    /\ UNCHANGED <<index, docStats, avgDocLength, db, engine, mu, call, last, faults, calls>>

\* Index.SearchAND / SearchOR under idx.mu and its deferred RUnlock; a
\* ranked search goes on to BM25.Score of its first candidate with stats
IndexSearch(t) ==
    /\ pc[t] = "search_locked"
    /\ idxMu' = [idxMu EXCEPT !.readers = @ \ {t}]
    /\ \E candidateIDs \in Orders(CandidateSet(index, call[t].queryTokens, call[t].options)) :
          LET c == IF call[t].options.UseRanking
                   THEN NextScored(docStats, candidateIDs, 0) ELSE 0
          IN  /\ call' = [call EXCEPT ![t].candidateIDs = candidateIDs,
                                      ![t].total = Len(candidateIDs), ![t].c = c]
              /\ Goto(t, IF c = 0 THEN "rank_docs" ELSE "total_rlock")
    /\ UNCHANGED <<index, docStats, avgDocLength, db, engine, mu, last, faults, calls>>

\* BM25.Score: idx.TotalDocuments() under idx.mu and its deferred RUnlock
IndexTotalDocuments(t) ==
    /\ pc[t] = "total_locked"
    /\ idxMu' = [idxMu EXCEPT !.readers = @ \ {t}]
    /\ LET q == NextTerm(docStats[call[t].candidateIDs[call[t].c]], call[t].queryTokens, 0)
           c == NextScored(docStats, call[t].candidateIDs, call[t].c)
       IN  IF q # 0
           THEN /\ call' = [call EXCEPT ![t].q = q]
                /\ Goto(t, "freq_rlock")
           ELSE /\ call' = [call EXCEPT ![t].c = c]
                /\ Goto(t, IF c = 0 THEN "rank_docs" ELSE "total_rlock")
    /\ UNCHANGED <<index, docStats, avgDocLength, db, engine, mu, last, faults, calls>>

\* BM25.Score: idx.DocFrequency(term) under idx.mu and its deferred RUnlock
IndexDocFrequency(t) ==
    /\ pc[t] = "freq_locked"
    /\ idxMu' = [idxMu EXCEPT !.readers = @ \ {t}]
    /\ LET q == NextTerm(docStats[call[t].candidateIDs[call[t].c]], call[t].queryTokens,
                         call[t].q)
           c == NextScored(docStats, call[t].candidateIDs, call[t].c)
       IN  IF q # 0
           THEN /\ call' = [call EXCEPT ![t].q = q]
                /\ Goto(t, "freq_rlock")
           ELSE /\ call' = [call EXCEPT ![t].c = c, ![t].q = 0]
                /\ Goto(t, IF c = 0 THEN "rank_docs" ELSE "total_rlock")
    /\ UNCHANGED <<index, docStats, avgDocLength, db, engine, mu, last, faults, calls>>

\* Search: the sort of RankDocuments, or the candidates as they are
SearchRank(t) ==
    /\ pc[t] = "rank_docs"
    /\ call' = [call EXCEPT ![t].ranked =
                  Ranked(Mem, call[t].queryTokens, call[t].candidateIDs, call[t].options)]
    /\ Goto(t, "paginate")
    /\ UNCHANGED <<index, docStats, avgDocLength, db, engine, mu, idxMu, last, faults, calls>>

\* Search: the pagination.  A slice out of range panics, and the panic
\* runs the deferred RUnlock.
SearchPaginate(t) ==
    /\ pc[t] = "paginate"
    /\ IF SliceInRange(PageBounds(Len(call[t].ranked.ids), call[t].options),
                       Len(call[t].ranked.ids))
       THEN /\ call' = [call EXCEPT ![t].page = Page(call[t].ranked, call[t].options)]
            /\ Goto(t, "fetch")
       ELSE /\ call' = [call EXCEPT ![t].panicked = TRUE]
            /\ Goto(t, "runlock")
    /\ UNCHANGED <<index, docStats, avgDocLength, db, engine, mu, idxMu, last, faults, calls>>

\* Index.Stats under idx.mu and its deferred RUnlock
IndexReadStats(t) ==
    /\ pc[t] = "stats_locked"
    /\ idxMu' = [idxMu EXCEPT !.readers = @ \ {t}]
    /\ call' = [call EXCEPT ![t].out = <<IndexStats(index)>>]
    /\ Goto(t, "runlock")
    /\ UNCHANGED <<index, docStats, avgDocLength, db, engine, mu, last, faults, calls>>

\* the steps of a call that has begun
Proceed(t) ==
    \/ EngineLock(t)
    \/ EngineLockWoken(t)
    \/ IndexLock(t)
    \/ IndexRemove(t)
    \/ IndexAdd(t)
    \/ SetStats(t)
    \/ DeleteStats(t)
    \/ Recalculate(t)
    \/ \E ioErr \in BOOLEAN : SaveDocumentStep(t, ioErr)
    \/ \E ioErr \in BOOLEAN : SaveDocStatsStep(t, ioErr)
    \/ \E ioErr \in BOOLEAN : DeleteDocumentStep(t, ioErr)
    \/ \E ioErr \in BOOLEAN : DeleteDocStatsStep(t, ioErr)
    \/ \E ioErr \in BOOLEAN : SaveIndexStep(t, ioErr)
    \/ Unlock(t)
    \/ EngineRLock(t)
    \/ EngineRLockWoken(t)
    \/ IndexRLock(t)
    \/ IndexSearch(t)
    \/ IndexTotalDocuments(t)
    \/ IndexDocFrequency(t)
    \/ SearchRank(t)
    \/ SearchPaginate(t)
    \/ Fetch(t)
    \/ IndexReadStats(t)
    \/ RUnlock(t)

NextLock ==
    \E t \in Threads :
        \/ \E doc \in LockDocuments : CallUpsert(t, doc)
        \/ \E docID \in LockIds : CallDelete(t, docID)
        \/ \E query \in LockQueries, options \in LockOptions : CallSearch(t, query, options)
        \/ CallStats(t)
        \/ \E docID \in LockIds : GetDocumentStep(t, docID)
        \/ Proceed(t)

\* the scheduler runs every goroutine that can take a step; whether a
\* call is made at all is left open
SpecLock == Init /\ [][NextLock]_vars /\ \A t \in Threads : WF_vars(Proceed(t))

(***************************************************************************)
(* Properties.                                                             *)
(***************************************************************************)
\* the tokens whose posting list contains id
PostingsOf(idx, id) == {t \in DOMAIN idx.index : id \in Range(idx.index[t])}

NoStepFailed == faults' = faults

\* C1: whenever an engine call has returned, and no store write has failed,
\* the index's document counter equals the number of stats entries.
C1_CounterEqualsStatsSize ==
    (engine = "open" /\ Quiet /\ faults = 0)
        => TotalDocuments(index) = Cardinality(DOMAIN docStats)

\* C2: UpsertDocument changes the document counter by 0 when the id had a
\* stats entry before the call and by exactly +1 otherwise.
C2_UpsertCounterDelta ==
    [][last'.op = "upsert" /\ NoStepFailed
        => TotalDocuments(index') - TotalDocuments(index)
             = IF last'.id \in DOMAIN docStats THEN 0 ELSE 1]_vars

\* C3: DeleteDocument of an id that is not stored returns success and leaves
\* the counter, the posting lists, the stats store and avg_len unchanged.
C3_DeleteAbsentChangesNothing ==
    [][(/\ last'.op = "delete"
        /\ NoStepFailed
        /\ last'.id \notin DOMAIN docStats
        /\ last'.id \notin IndexedIds(index)
        /\ last'.id \notin DOMAIN db.documents)
        => /\ last'.err = ""
           /\ index' = index
           /\ docStats' = docStats
           /\ avgDocLength' = avgDocLength]_vars

TokensOf(doc) == Range(analyze(SearchableText(doc)))

\* C4: after upsert(d) and then upsert(d') with the same id, the id is in
\* the posting list of t exactly when t is a token of d', and the stats
\* entry of the id is the length and term frequencies of d'.
C4_UpsertReplaces ==
    (last.op = "upsert" /\ Quiet) =>
        LET d == last.doc[1]
            tokens == analyze(SearchableText(d))
        IN  /\ PostingsOf(index, d.ID) = Range(tokens)
            /\ d.ID \in DOMAIN docStats
            /\ docStats[d.ID].Length = Len(tokens)
            /\ docStats[d.ID].TermFrequencies = TermFreqs(tokens)

\* a second upsert of an id whose previous text had a token that the new
\* text lacks, the token still being indexed for another document
C4_Witness ==
    /\ last.op = "upsert"
    /\ last.had # <<>>
    /\ \E t \in DOMAIN last.had[1].TermFrequencies :
          /\ t \notin TokensOf(last.doc[1])
          /\ t \in DOMAIN index.index

\* C5: after a successful upsert(d), get(d.id) returns a document equal to
\* d in every field, also when d.Metadata is an empty map or d.URL is empty.
C5_GetReturnsUpserted ==
    [][(last'.op = "upsert" /\ last'.err = "")
        => GetDocument(db', last'.id) = last'.doc]_vars

\* the statements of a mutation, from Lock to the deferred Unlock
WriterPcs ==
    {"update_remove", "update_add", "set_stats", "remove", "delete_stats", "recalculate",
     "save_document", "save_doc_stats", "delete_document", "delete_doc_stats",
     "save_index", "unlock"}

\* a mutation has made some of its in-memory changes and not yet all
PartialPcs == {"update_add", "set_stats", "delete_stats", "recalculate"}

\* the statements of Search and Stats that read index, docStats, avgDocLength
LookupPcs == {"candidates", "rank", "index_stats"}

\* the statements of Search and Stats under RLock
ReaderPcs == LookupPcs \cup {"fetch", "runlock"}

\* what holds of the in-memory tuple between two mutations: an id is in the
\* posting lists of exactly the tokens its stats entry counts, and
\* avgDocLength is the mean of the stats entries
MemConsistent ==
    /\ \A id \in DOMAIN docStats :
          PostingsOf(index, id) = DOMAIN docStats[id].TermFrequencies
    /\ IndexedIds(index) \subseteq DOMAIN docStats
    /\ avgDocLength = AvgLength(docStats)

\* C6: no Search or Stats does its in-memory lookups while a mutation has
\* made only some of its in-memory changes; the tuple it reads is whole.
C6_ReadersSeeNoPartialMutation ==
    \A r \in Threads :
        pc[r] \in LookupPcs =>
            /\ \A w \in Threads : pc[w] \notin PartialPcs
            /\ MemConsistent

\* a search ranking its candidates after an upsert replaced an existing id
C6_Witness ==
    /\ last.op = "upsert" /\ last.had # <<>>
    /\ \E r \in Threads : pc[r] = "rank" /\ Len(call[r].candidateIDs) > 0

\* C7: a mutation holds the writer lock from before its first in-memory
\* change until after its last store write, no two mutations are in that
\* section together, and when every write has succeeded the index record
\* in the file is the serialization of the in-memory index.
C7_WritersAreSerialized ==
    /\ \A w \in Threads : pc[w] \in WriterPcs => (mu.writer = w /\ mu.readers = {})
    /\ Cardinality({w \in Threads : pc[w] \in WriterPcs}) <= 1
    /\ \A w \in Threads :
          (pc[w] = "unlock" /\ call[w].err = "") =>
              (MainIndexKey \in DOMAIN db.index
                  /\ db.index[MainIndexKey] = MarshalIndex(index))
    /\ (faults = 0 /\ \A w \in Threads : pc[w] \notin WriterPcs) => LoadIndex(db) = index

\* a second mutation that has made its three writes and is about to unlock
C7_Witness ==
    /\ \E w \in Threads : pc[w] = "unlock" /\ call[w].err = "" /\ call[w].op = "upsert"
    /\ Cardinality(DOMAIN db.documents) = 2
    /\ last.op = "upsert"

\* C8: a search computes its candidates, total, scores and documents from
\* the state it found when it took the reader lock, which no mutation was
\* changing; nothing a later mutation does reaches it.
C8_SearchSeesLockTimeState ==
    \A r \in Threads :
        pc[r] \in ReaderPcs =>
            /\ call[r].at = Snapshot
            /\ mu.writer = 0 /\ r \in mu.readers
            /\ (pc[r] = "runlock" /\ call[r].op = "search" /\ Len(call[r].queryTokens) > 0) =>
                  /\ call[r].candidateIDs \in
                        CandidateOrders(call[r].at.mem.index, call[r].query, call[r].options)
                  /\ ReaderOut(call[r]) =
                        <<SearchResult(call[r].at.mem, call[r].at.db, call[r].query,
                                       call[r].options, call[r].candidateIDs)>>

\* a search about to return a document that an upsert wrote before it
C8_Witness ==
    /\ last.op = "upsert"
    /\ \E r \in Threads :
          /\ pc[r] = "runlock" /\ call[r].op = "search"
          /\ Len(call[r].documents) > 0
          /\ call[r].total > 0

\* C9: after upserts and deletes that all succeeded, Close followed by
\* NewSearchEngine on the same file yields the posting lists, document
\* counter, stats store and avg_len of the engine that was closed, and the
\* same stored documents.
C9_ReopenRestores ==
    [][(engine = "closed" /\ engine' = "open" /\ faults = 0)
        => /\ index' = index
           /\ docStats' = docStats
           /\ avgDocLength' = avgDocLength
           /\ \A id \in DocIds : GetDocument(db', id) = GetDocument(db, id)]_vars

\* a reopened engine holding two documents that share a token
C9_Witness ==
    /\ last.op = "open" /\ engine = "open" /\ faults = 0
    /\ Cardinality(DOMAIN docStats) = 2
    /\ \E t \in DOMAIN index.index : Len(index.index[t]) = 2

\* C10: when a store write of an upsert or delete fails, the call returns
\* that error, the later writes are not made, and index, stats store and
\* avg_len keep the mutation.
C10_FailureKeepsMemory ==
    [][/\ (last'.op = "upsert" /\ last'.err # "") =>
            LET d == last'.doc[1]
                tokens == analyze(SearchableText(d))
            IN  /\ PostingsOf(index', d.ID) = Range(tokens)
                /\ Entry(docStats', d.ID) = <<MakeDocStats(d.ID, tokens)>>
                /\ avgDocLength' = AvgLength(docStats')
                /\ last'.err = "failed to save document" => db' = db
                /\ last'.err = "failed to save doc stats" =>
                      /\ GetDocument(db', d.ID) # <<>>
                      /\ db'.doc_stats = db.doc_stats /\ db'.index = db.index
                /\ last'.err = "failed to save index" =>
                      /\ GetDocument(db', d.ID) # <<>>
                      /\ d.ID \in DOMAIN db'.doc_stats
                      /\ db'.index = db.index
       /\ (last'.op = "delete" /\ last'.err # "") =>
            /\ PostingsOf(index', last'.id) = {}
            /\ last'.id \notin DOMAIN docStats'
            /\ avgDocLength' = AvgLength(docStats')
            /\ last'.err = "failed to delete document" => db' = db
            /\ last'.err = "failed to delete doc stats" =>
                  /\ last'.id \notin DOMAIN db'.documents
                  /\ db'.doc_stats = db.doc_stats /\ db'.index = db.index
            /\ last'.err = "failed to save index" =>
                  /\ last'.id \notin DOMAIN db'.documents
                  /\ last'.id \notin DOMAIN db'.doc_stats
                  /\ db'.index = db.index]_vars

\* an upsert that failed at its second write: the entry is in memory, not
\* in the file, and what a reopen would load differs from memory
C10_Witness ==
    /\ last.op = "upsert" /\ last.err = "failed to save doc stats"
    /\ last.id \in DOMAIN docStats
    /\ last.id \notin DOMAIN db.doc_stats
    /\ NewSearchEngine(db) # Mem

\* the ids of a sequence of documents
IdsOf(documents) == [i \in 1..Len(documents) |-> documents[i].ID]

\* the page of ids a search with these inputs fetches
PageIds(e, query, options, candidateIDs) ==
    Page(Ranked(e, analyze(query), candidateIDs, options), options).ids

\* C11: after a crash between two of the three store writes of an upsert or
\* a delete, the reopened engine is the one the file describes, every
\* search returns without error, every document it returns is a document
\* of the documents bucket, and the returned documents are those of the
\* page ids that the bucket holds, in page order, the others left out.
C11_CrashRecoverySearch ==
    /\ (last.op = "open" /\ engine = "open") => (last.err = "" /\ Mem = NewSearchEngine(db))
    /\ last.op = "search" =>
          /\ last.err = ""
          /\ \A i \in 1..Len(last.out[1].Documents) :
                GetDocument(db, last.out[1].Documents[i].ID) = <<last.out[1].Documents[i]>>
    /\ (engine = "open" /\ Quiet) =>
          \A query \in ConcQueries, options \in ConcOptions :
             \A candidateIDs \in CandidateOrders(index, query, options) :
                Len(analyze(query)) > 0 =>
                   IdsOf(SearchResult(Mem, db, query, options, candidateIDs).Documents)
                      = SelectSeq(PageIds(Mem, query, options, candidateIDs),
                                  LAMBDA id : id \in DOMAIN db.documents)

\* after a crash and a reopen, a search has returned one document of two
\* candidates while the index lists an id whose document is not stored
C11_Witness ==
    /\ faults > 0 /\ engine = "open"
    /\ last.op = "search"
    /\ last.out[1].Total = 2
    /\ Len(last.out[1].Documents) = 1
    /\ \E id \in IndexedIds(index) : id \notin DOMAIN db.documents

\* normalizedTF of BM25.Score for the term t and the stats entry stats,
\* times Scale
TfFactor(stats, t, avg) ==
    TermScore(Scale, IF t \in DOMAIN stats.TermFrequencies
                     THEN stats.TermFrequencies[t] ELSE 0, stats.Length, avg)

\* C12: in a ranked search for one token, a document with the higher
\* term-frequency factor for the token precedes one with the lower: after
\* x = {"go", "go go go"} and y = {"go", "other"} the search for "go"
\* returns x before y.
C12_HigherTfFirst ==
    (engine = "open" /\ Quiet) =>
        \A query \in ExampleQueries :
           \A candidateIDs \in CandidateOrders(index, query, DefaultSearchOptions) :
              Len(analyze(query)) = 1 =>
                 LET ids == IdsOf(SearchResult(Mem, db, query, DefaultSearchOptions,
                                               candidateIDs).Documents)
                 IN  \A i, j \in 1..Len(ids) :
                        i < j => TfFactor(docStats[ids[i]], analyze(query)[1], avgDocLength)
                                    >= TfFactor(docStats[ids[j]], analyze(query)[1], avgDocLength)

\* C13: the idf of every token of the index is non-negative, the posting
\* list of no token is longer than the document counter, and every score a
\* ranked search returns is >= 0.
C13_IdfNonNegative ==
    (engine = "open" /\ Quiet) =>
        /\ \A t \in DOMAIN index.index :
              /\ DocFrequency(index, t) <= TotalDocuments(index)
              /\ IDF(TotalDocuments(index), DocFrequency(index, t)) >= 0
        /\ last.op = "search" =>
              \A i \in 1..Len(last.out[1].Scores) : last.out[1].Scores[i] >= 0

\* the sequence of scores never rises
Descending(scores) == \A i, j \in 1..Len(scores) : i < j => scores[i] >= scores[j]

\* C14: the id list of a ranked search is in descending order of score, and
\* the page returned, ids and scores, is a contiguous slice of that list.
C14_RankedDescending ==
    (engine = "open" /\ Quiet) =>
        /\ last.op = "search" => Descending(last.out[1].Scores)
        /\ \A query \in Queries, options \in SearchOptions :
              \A candidateIDs \in CandidateOrders(index, query, options) :
                 (options.UseRanking /\ Len(candidateIDs) > 0) =>
                    LET ranked == Ranked(Mem, analyze(query), candidateIDs, options)
                        out == SearchResult(Mem, db, query, options, candidateIDs)
                    IN  /\ Descending(ranked.scores)
                        /\ Len(ranked.scores) = Len(ranked.ids)
                        /\ \A i \in 1..Len(ranked.ids) :
                              ranked.scores[i] = Score(analyze(query), docStats[ranked.ids[i]],
                                                       index, avgDocLength)
                        /\ \E start \in 0..Len(ranked.ids) : \E end \in start..Len(ranked.ids) :
                              /\ out.Scores = SubSeq(ranked.scores, start + 1, end)
                              /\ IdsOf(out.Documents) = SubSeq(ranked.ids, start + 1, end)

\* a ranked search has returned two documents of different scores
C14_Witness ==
    /\ last.op = "search"
    /\ Len(last.out[1].Scores) = 2
    /\ Len(last.out[1].Documents) = 2
    /\ last.out[1].Scores[1] > last.out[1].Scores[2]

\* C15: for every offset >= 0 and limit >= 0 a search returns a result
\* with, as total, the number of candidates before pagination and, as
\* documents, those of ids[start:end], start = min(offset, |ids|), end =
\* min(start + limit, |ids|): at most limit documents, none when the offset
\* is past the end.  The options are those of the calls and the page of
\* LockOptions, whose limit is the largest int.
C15_Pagination ==
    (engine = "open" /\ Quiet) =>
        /\ last.op = "search" => Len(last.out[1].Documents) <= last.out[1].Total
        /\ \A query \in Queries, options \in SearchOptions \cup LockOptions :
              \A candidateIDs \in CandidateOrders(index, query, options) :
                 Len(analyze(query)) > 0 =>
                    LET ids == Ranked(Mem, analyze(query), candidateIDs, options).ids
                        out == SearchResult(Mem, db, query, options, candidateIDs)
                        start == IF options.Offset < Len(ids) THEN options.Offset ELSE Len(ids)
                        end == IF start + options.Limit < Len(ids)
                               THEN start + options.Limit ELSE Len(ids)
                    IN  /\ DOMAIN out = {"Documents", "Total", "Scores"}
                        /\ out.Total = Cardinality(CandidateSet(index, analyze(query), options))
                        /\ Len(out.Documents) = end - start
                        /\ \A i \in 1..(end - start) : out.Documents[i].ID = ids[start + i]
                        /\ Len(out.Documents) <= options.Limit
                        /\ options.Offset >= Len(ids) => out.Documents = <<>>

\* C16: the scores of a ranked search cover the returned page: as many
\* entries as documents, scores[i] the BM25 score of documents[i]; an
\* unranked search returns no scores.  Also when a page id loads no
\* document or a candidate has no stats entry.
C16_ScoresCoverPage ==
    (engine = "open" /\ Quiet) =>
        \A query \in Queries, options \in SearchOptions :
           \A candidateIDs \in CandidateOrders(index, query, options) :
              Len(analyze(query)) > 0 =>
                 LET out == SearchResult(Mem, db, query, options, candidateIDs)
                 IN  IF options.UseRanking
                     THEN /\ Len(out.Scores) = Len(out.Documents)
                          /\ \A i \in 1..Len(out.Documents) :
                                /\ out.Documents[i].ID \in DOMAIN docStats
                                /\ out.Scores[i] =
                                      Score(analyze(query), docStats[out.Documents[i].ID],
                                            index, avgDocLength)
                     ELSE out.Scores = <<>>

\* the tokens of the documents and one token no document has
ProbeTokens == Tokens \cup {<<"7", "7">>}

\* the token lists of up to MaxQueryTokens tokens, the empty list included
TokenLists == UNION {[1..n -> ProbeTokens] : n \in 0..MaxQueryTokens}

\* C17: for every non-empty token list T, SearchAND(T) is a subset of
\* SearchOR(T), and SearchOR(T) is the union over the tokens t of T of
\* SearchAND of the one-token list [t].
C17_AndOrDuality ==
    \A T \in TokenLists :
        Len(T) > 0 =>
            /\ SearchAND(index, T) \subseteq SearchOR(index, T)
            /\ SearchOR(index, T) = UNION {SearchAND(index, <<T[i]>>) : i \in 1..Len(T)}

\* a search has run on an index where, for some list of two tokens, the
\* AND set is non-empty and smaller than the OR set
C17_Witness ==
    /\ last.op = "search"
    /\ \E T \in TokenLists :
          /\ Len(T) = 2
          /\ SearchAND(index, T) # {}
          /\ SearchAND(index, T) # SearchOR(index, T)

\* C18: SearchAND(tokens) is the set of the ids that are in the posting
\* list of every token of the list, each id once also when a token is
\* repeated, and is empty when the list is empty or a token is not in the
\* index.
C18_AndIsIntersection ==
    /\ \A t \in DOMAIN index.index :
          Cardinality(Range(index.index[t])) = Len(index.index[t])
    /\ \A T \in TokenLists :
          /\ SearchAND(index, T) =
                IF Len(T) = 0 \/ \E i \in 1..Len(T) : T[i] \notin DOMAIN index.index
                THEN {}
                ELSE {id \in IndexedIds(index) :
                         \A i \in 1..Len(T) : id \in Range(index.index[T[i]])}
          /\ \A order \in Orders(SearchAND(index, T)) :
                \A i, j \in 1..Len(order) : order[i] = order[j] => i = j

\* a search has run on an index that holds a token of two documents while
\* another token of one of them is absent from the index
C18_Witness ==
    /\ last.op = "search"
    /\ \E T \in TokenLists :
          /\ Len(T) = 2
          /\ T[1] \in DOMAIN index.index /\ Len(index.index[T[1]]) = 2
          /\ T[2] \in Tokens /\ T[2] \notin DOMAIN index.index

\* the id is in no posting list, has no stats entry and no stored document
Gone(idx, stats, d, id) ==
    /\ PostingsOf(idx, id) = {}
    /\ id \notin DOMAIN stats
    /\ GetDocument(d, id) = <<>>

\* C19: after DeleteDocument(id) has returned success and until the next
\* upsert of the id, the id is in no posting list, no posting list is
\* empty, the id has no stats entry, get(id) returns the absent value
\* without error and no search returns the id; once no document is stored,
\* stats() reports total_documents 0.
C19_DeleteRemoves ==
    [][/\ (last'.op = "delete" /\ last'.err = "") =>
              Gone(index', docStats', db', last'.id)
       /\ \A id \in RegularIds :
              (Gone(index, docStats, db, id) /\ ~(last'.op = "upsert" /\ last'.id = id))
                 => Gone(index', docStats', db', id)
       /\ \A t \in DOMAIN index'.index : Len(index'.index[t]) > 0
       /\ (last'.op = "get" /\ Gone(index', docStats', db', last'.id)) =>
              (last'.err = "" /\ last'.out = <<>>)
       /\ last'.op = "search" =>
              /\ last'.err = ""
              /\ \A i \in 1..Len(last'.out[1].Documents) :
                    ~Gone(index', docStats', db', last'.out[1].Documents[i].ID)
       /\ (last'.op = "stats" /\ DOMAIN db'.documents = {}) =>
              last'.out[1].TotalDocuments = 0]_vars

\* a delete has removed a document that had a token of its own while
\* another document stays indexed
C19_Witness ==
    /\ last.op = "delete" /\ last.err = ""
    /\ last.had # <<>>
    /\ \E t \in DOMAIN last.had[1].TermFrequencies : t \notin DOMAIN index.index
    /\ DOMAIN index.index # {}

\* C20: after successful engine calls the set of ids that have a stats
\* entry equals the set of ids that occur in some posting list, also for a
\* document whose text yields no token.
C20_StatsIdsEqualIndexedIds ==
    (engine = "open" /\ Quiet /\ faults = 0) => DOMAIN docStats = IndexedIds(index)

\* C21: no token maps to an empty posting list and no posting list holds
\* an id twice, after any sequence of add, remove and update, repeated
\* additions of an id and token lists that repeat a token included.
C21_PostingListsWellFormed ==
    \A t \in DOMAIN index.index :
        /\ Len(index.index[t]) > 0
        /\ \A i, j \in 1..Len(index.index[t]) :
              index.index[t][i] = index.index[t][j] => i = j

\* an id has been added again, with a token list that repeats a token,
\* to an index that already listed it under the token
C21_Witness ==
    /\ last.op = "add"
    /\ \E i, j \in 1..Len(last.out[1]) : i # j /\ last.out[1][i] = last.out[1][j]
    /\ index.docCount > Cardinality(IndexedIds(index))
    /\ \E t \in DOMAIN index.index : Len(index.index[t]) = 2
RECURSIVE SumCounts(_, _)
\* the sum of the counts freqs holds for the tokens ts
SumCounts(freqs, ts) ==
    IF ts = {} THEN 0
    ELSE LET t == CHOOSE x \in ts : TRUE
         IN  freqs[t] + SumCounts(freqs, ts \ {t})

\* the number of times t occurs in the token list tokens
Occurrences(tokens, t) == Cardinality({i \in 1..Len(tokens) : tokens[i] = t})

\* C22: the length of every stats entry is the sum of its term-frequency
\* counts, and the entry counts exactly the tokens of the analysis of the
\* stored document's title + " " + content, each as often as it occurs.
C22_StatsCountTokens ==
    \A id \in DOMAIN docStats :
        LET stats == docStats[id]
            stored == GetDocument(db, id)
        IN  /\ stats.Length = SumCounts(stats.TermFrequencies, DOMAIN stats.TermFrequencies)
            /\ Len(stored) = 1
            /\ LET tokens == analyze(SearchableText(stored[1]))
               IN  /\ DOMAIN stats.TermFrequencies = Range(tokens)
                   /\ \A t \in Range(tokens) :
                         stats.TermFrequencies[t] = Occurrences(tokens, t)

\* an upsert has returned and its entry counts a token three times
C22_Witness ==
    /\ last.op = "upsert" /\ last.err = ""
    /\ last.id \in DOMAIN docStats
    /\ docStats[last.id].Length = 3
    /\ \E t \in DOMAIN docStats[last.id].TermFrequencies :
          docStats[last.id].TermFrequencies[t] = 3

\* C23: whenever a call has returned, and right after open, avgDocLength
\* times the number of stats entries is the sum of their lengths, and
\* avgDocLength is 0 when there is no stats entry.
C23_AvgTimesCountIsSum ==
    (engine = "open" /\ Quiet) =>
        /\ avgDocLength[1] * Cardinality(DOMAIN docStats)
             = avgDocLength[2] * SumLengths(docStats, DOMAIN docStats)
        /\ DOMAIN docStats = {} => avgDocLength = Zero

\* the engine has been opened on a store with two stats entries whose
\* lengths have an odd sum
C23_Witness ==
    /\ engine = "open" /\ Quiet /\ last.op = "open"
    /\ Cardinality(DOMAIN docStats) = 2
    /\ SumLengths(docStats, DOMAIN docStats) % 2 = 1
\* a request asks for a negative limit or offset, or for a mode that is
\* neither and nor or
NegativePagination(req) ==
    \/ ~Atoi(req.limit).err /\ Atoi(req.limit).n < 0
    \/ ~Atoi(req.offset).err /\ Atoi(req.offset).n < 0

UnknownMode(req) == req.mode \notin {"", "and", "or"}

\* C24: a search request with a negative limit or offset, or with an unknown
\* mode, is answered with an input-validation error.
C24_InvalidSearchRejected ==
    (last.op = "handleSearch" /\ (NegativePagination(last.doc[1]) \/ UnknownMode(last.doc[1])))
        => last.out[1].status = "StatusBadRequest"
\* C25: a batch insert upserts its documents in request order, one per
\* round of its loop, whatever other requests are served in between.  The
\* round whose upsert fails replies 500 and ends the handler, so that no
\* later document is attempted; the round of the last document replies 200;
\* any other round goes on to the next document without a reply.  A round
\* whose upsert succeeds leaves its document stored and listed under its
\* tokens, and no round changes the store, the stats or the posting lists
\* of another id, so that the documents upserted before stay as they were.
C25_BatchStopsAtFirstError ==
    [][\A t \in Threads : (pc[t] = "batch_upsert" /\ call'[t] # call[t]) =>
        LET req == call[t].req
            docs == req.documents[1]
            i == call[t].i
            doc == RequestDocument(docs[i])
            failed == UpsertPersist(db, doc, UpsertMem(Mem, doc).index, 0).err # ""
            returned == pc'[t] = "idle" /\ last'.op = "handleBatchInsert" /\ last'.doc = <<req>>
        IN  /\ i \in 1..Len(docs)
            /\ failed => returned /\ last'.out[1].status = "StatusInternalServerError"
            /\ (~failed /\ i = Len(docs)) => returned /\ last'.out[1].status = "StatusOK"
            /\ (~failed /\ i < Len(docs)) =>
                  /\ pc'[t] = "batch_upsert" /\ last' = last
                  /\ call'[t] = [call[t] EXCEPT !.i = i + 1]
            /\ ~failed =>
                  LET got == GetDocument(db', doc.ID)
                  IN  /\ Len(got) = 1
                      /\ got[1].Title = doc.Title
                      /\ got[1].Content = doc.Content
                      /\ got[1].URL = doc.URL
                      /\ PostingsOf(index', doc.ID) = TokensOf(doc)
            /\ \A id \in DocIds \ {doc.ID} :
                  /\ GetDocument(db', id) = GetDocument(db, id)
                  /\ Entry(docStats', id) = Entry(docStats, id)
                  /\ PostingsOf(index', id) = PostingsOf(index, id)]_vars

\* a batch of two documents has been answered with 500: the upsert of the
\* second failed and the first is stored and listed under its tokens
C25_Witness ==
    /\ last.op = "handleBatchInsert"
    /\ last.out[1].status = "StatusInternalServerError"
    /\ last.doc[1].documents # <<>>
    /\ LET docs == last.doc[1].documents[1]
       IN  /\ Len(docs) = 2
           /\ docs[1].ID # docs[2].ID
           /\ docs[1].ID \in DOMAIN db.documents
           /\ UnmarshalDocument(db.documents[docs[1].ID]).Content = docs[1].Content
           /\ docs[2].ID \notin DOMAIN db.documents
           /\ PostingsOf(index, docs[1].ID) = TokensOf(RequestDocument(docs[1]))
\* text[i..j] is a maximal run of letters and numbers
MaximalRun(text, i, j) ==
    /\ i <= j
    /\ \A k \in i..j : IsLetter(text[k]) \/ IsNumber(text[k])
    /\ i = 1 \/ ~(IsLetter(text[i - 1]) \/ IsNumber(text[i - 1]))
    /\ j = Len(text) \/ ~(IsLetter(text[j + 1]) \/ IsNumber(text[j + 1]))

\* C26: every token analyze emits is a maximal run of letters and numbers
\* of the text, lower-cased, and is at least two code points long.
C26_TokensHaveTwoCodePoints ==
    last.op = "analyze" =>
        LET text == last.out[1]
            tokens == last.out[2]
        IN  \A n \in 1..Len(tokens) :
              /\ Len(tokens[n]) >= 2
              /\ \E i, j \in 1..Len(text) :
                    /\ MaximalRun(text, i, j)
                    /\ tokens[n] = [k \in 1..(j - i + 1) |-> ToLowerRune(text[i + k - 1])]
\* C27: on an engine whose avgDocLength is zero no search calls BM25.Score.
C27_NoScoringWithZeroAverage ==
    (engine = "open" /\ Quiet /\ avgDocLength = Zero) =>
        \A query \in Queries, options \in SearchOptions :
            \A candidateIDs \in CandidateOrders(index, query, options) :
                ScoreCalls(Mem, candidateIDs, options) = 0
\* the position of id in the sequence ids
PositionIn(ids, id) == CHOOSE i \in 1..Len(ids) : ids[i] = id

\* C28: candidates of equal score leave the ranker in the relative order
\* in which they stand in the candidate list.
C28_RankerStable ==
    last.op = "rank" =>
        LET candidateDocs == last.out[1]
            scoredDocs == last.out[2]
        IN  \A i, j \in 1..Len(scoredDocs) :
              (i < j /\ scoredDocs[i].Score = scoredDocs[j].Score) =>
                  PositionIn(candidateDocs, scoredDocs[i].DocID)
                    < PositionIn(candidateDocs, scoredDocs[j].DocID)
\* C29: Search, GetDocument and Stats leave the posting lists, the document
\* counter, the stats map, avgDocLength and every bucket of the store as
\* they were.
C29_ReadsChangeNothing ==
    [][last'.op \in {"search", "get", "stats"} =>
          /\ index' = index
          /\ docStats' = docStats
          /\ avgDocLength' = avgDocLength
          /\ db' = db]_vars

\* a ranked OR search has returned the scores of two stored documents, one
\* of which lacks a term of the query
C29_Witness ==
    /\ last.op = "search"
    /\ Len(last.out[1].Scores) = 2
    /\ Len(last.out[1].Documents) = 2
    /\ \E d \in Range(last.out[1].Documents) : <<"r", "s">> \notin TokensOf(d)
\* the documents the store holds
StoredDocuments(d) == {UnmarshalDocument(d.documents[id]) : id \in DOMAIN d.documents}

\* the analysis of the document's title + " " + content contains every
\* query token in AND mode, at least one in OR mode
Matches(doc, queryTokens, options) ==
    IF options.Mode = SearchModeOR
    THEN \E t \in Range(queryTokens) : t \in TokensOf(doc)
    ELSE \A t \in Range(queryTokens) : t \in TokensOf(doc)

\* C30 as stated: every document a search returns matches the query on its
\* stored text, and total is the number of stored documents that match.
C30_ResultsMatchQuery ==
    (engine = "open" /\ Quiet) =>
        \A query \in Queries, options \in SearchOptions :
            \A candidateIDs \in CandidateOrders(index, query, options) :
                LET result == SearchResult(Mem, db, query, options, candidateIDs)
                IN  /\ \A i \in 1..Len(result.Documents) :
                          Matches(result.Documents[i], analyze(query), options)
                    /\ result.Total
                         = Cardinality({doc \in StoredDocuments(db) :
                                          Matches(doc, analyze(query), options)})

\* C30, amended: the same for every query that has at least one token; a
\* query without a token returns no document and total 0 in either mode.
C30_ResultsMatchNonEmptyQuery ==
    (engine = "open" /\ Quiet) =>
        \A query \in Queries, options \in SearchOptions :
            \A candidateIDs \in CandidateOrders(index, query, options) :
                LET result == SearchResult(Mem, db, query, options, candidateIDs)
                IN  IF Len(analyze(query)) = 0
                    THEN result.Total = 0 /\ result.Documents = <<>>
                    ELSE /\ \A i \in 1..Len(result.Documents) :
                               Matches(result.Documents[i], analyze(query), options)
                         /\ result.Total
                              = Cardinality({doc \in StoredDocuments(db) :
                                               Matches(doc, analyze(query), options)})

\* a search has returned one of two stored documents, the other one having
\* tokens of its own
C30_Witness ==
    /\ last.op = "search"
    /\ last.out[1].Total = 1
    /\ Len(last.out[1].Documents) = 1
    /\ Cardinality(DOMAIN db.documents) = 2
    /\ \A doc \in StoredDocuments(db) : TokensOf(doc) # {}
\* C31: on an unchanged corpus a query with given options has one result:
\* whatever order the candidates are collected in, the search returns the
\* same sequence of documents.
C31_SearchRepeatable ==
    (engine = "open" /\ Quiet) =>
        \A query \in Queries, options \in SearchOptions :
            \A first, second \in CandidateOrders(index, query, options) :
                SearchResult(Mem, db, query, options, first).Documents
                  = SearchResult(Mem, db, query, options, second).Documents
\* C32: for every offset >= 0 and every limit >= 1 that is an int, the
\* bounds of the page satisfy 0 <= start <= end <= |ids| and the search
\* returns a result.
C32_PageBoundsInRange ==
    (engine = "open" /\ Quiet) =>
        \A req \in SearchRequests :
            LET options == ParseOptions(req)
            IN  (req.query # <<>> /\ options.Offset >= 0 /\ options.Limit >= 1) =>
                  \A candidateIDs \in CandidateOrders(index, req.query, options) :
                      LET n == Len(Ranked(Mem, analyze(req.query), candidateIDs, options).ids)
                      IN  /\ SliceInRange(PageBounds(n, options), n)
                          /\ "panic" \notin DOMAIN SearchResult(Mem, db, req.query,
                                                                options, candidateIDs)

\* C33: with any number of concurrent upsert, delete, search, get and stats
\* calls and a fair scheduler, a goroutine holds or asks for the lock of the
\* index only while it holds the lock of the engine, it never takes the
\* lock of the engine while it holds the lock of the index, and every call
\* that has begun returns.
C33_LockOrderAndReturn ==
    /\ [](\A t \in Threads : (HoldsIndex(t) \/ AtIndexLock(t)) => HoldsEngine(t))
    /\ [][\A t \in Threads : (HoldsEngine(t)' /\ ~HoldsEngine(t)) => ~HoldsIndex(t)]_vars
    /\ \A t \in Threads : (pc[t] # "idle") ~> (pc[t] = "idle")

\* a writer holds both locks while another goroutine waits for the lock of
\* the engine, after a call has already returned
C33_Witness ==
    \E t, u \in Threads :
        /\ mu.writer = t /\ idxMu.writer = t
        /\ pc[u] \in {"e_lock", "e_rlock_wait"}
        /\ last.op # "open"

====
